---- MODULE Spec2Model ----
(***************************************************************************)
(* Resilience layer of the backend: the three-state CircuitBreaker         *)
(* (backend/utils/circuit_breaker.py), the sliding-window RateLimiter      *)
(* (backend/utils/rate_limiter.py), the rotating pool of API keys           *)
(* (backend/config/api_key_manager.py) and the TTLCache                    *)
(* (backend/utils/cache_manager.py).                                       *)
(*                                                                         *)
(* Every `with self._lock:` block of the source is one atomic action; the  *)
(* downstream function runs outside the lock, between two such blocks.     *)
(* Time is a discrete clock; one locked block reads it once.               *)
(***************************************************************************)
EXTENDS Integers, Sequences, FiniteSets, TLC

\* ---------------------------------------------------------------- bounds
\* CircuitBreaker configuration used for checking (constructor arguments).
failure_threshold == 2
timeout_seconds == 2
half_open_max_calls == 2
\* The clock runs 0..MaxTime and at most MaxCalls calls enter the breaker.
MaxTime == 5
MaxCalls == 6

Threads == {"t1", "t2"}

\* _last_failure_time is None until the first counted failure.
NoTime == -1

VARIABLES
    \* CircuitBreaker fields
    state,               \* _state: "closed" | "open" | "half_open"
    failure_count,       \* _failure_count
    success_count,       \* _success_count
    last_failure_time,   \* _last_failure_time (NoTime = None)
    half_open_calls,     \* _half_open_calls
    total_calls,         \* _total_calls
    \* environment of the breaker
    now,                 \* datetime.now()
    pc,                  \* per caller: "idle" | "admitted" | "running"
    result,              \* per caller: outcome of its last call()
    \* history variables (observers, never read by the modelled code)
    streak,              \* counted failures since the last success / reset
    probe,               \* per caller: its call was admitted in the current half-open episode
    episode_admitted,    \* calls admitted in the current half-open episode
    episode_successes,   \* successes of such calls in the current half-open episode
    pre                  \* SpecCBSolo only: breaker fields when the call was made

cbFields == <<state, failure_count, success_count, last_failure_time, half_open_calls>>
cbVars == <<state, failure_count, success_count, last_failure_time, half_open_calls,
            total_calls, now, pc, result, streak, probe, episode_admitted,
            episode_successes, pre>>

VARIABLES
    \* RateLimiter configuration (fixed at construction; 0 = None, not configured)
    requests_per_hour,
    requests_per_day,
    \* RateLimiter fields
    minute_window,       \* deque(maxlen=requests_per_minute) of timestamps
    hour_window,         \* deque of timestamps (unused when not configured)
    day_window,          \* deque of timestamps (unused when not configured)
    total_requests,
    total_blocked,
    \* environment of the limiter
    clock,               \* time.time()
    ticks,               \* how often the clock has advanced
    rl_pc,               \* per caller: position in try_acquire() / acquire()
    start_time,          \* per caller: acquire()'s start_time
    timeout,             \* per caller: acquire()'s timeout (NoTimeout = None)
    wait_logged,         \* per caller: acquire()'s wait_logged
    rl_result,           \* per caller: what its last try_acquire()/acquire() returned
    tried_at,            \* per caller: clock reading of its last try_acquire() (history)
    rl_lock              \* owner of _lock (an RLock) between the steps, NoHolder = free

rlVars == <<requests_per_hour, requests_per_day, minute_window, hour_window,
            day_window, total_requests, total_blocked, clock, ticks, rl_pc,
            start_time, timeout, wait_logged, rl_result, tried_at, rl_lock>>

VARIABLES
    \* APIKeyManager fields
    google_keys,         \* _google_keys: list of keys, in rotation order
    current_index,       \* _current_index (0-based)
    compromised_keys,    \* _compromised_keys: set of removed keys
    \* callers inside handle_api_error
    km_pc,               \* per caller: "idle" | "remove" | "rotate"
    key_to_remove,       \* per caller: handle_api_error's key_to_remove
    \* history variables (observers, never read by the modelled code)
    returned,            \* <<method, value>> of the call that returned last
    rotations,           \* rotate_google_key() calls in a row that rotated, modulo the pool size
    rotation_start,      \* _current_index before the first of them
    used_key,            \* per caller: the key of its API call, until the error of that call is handled
    key_before           \* per caller inside handle_api_error: the current key when it was called

kmVars == <<google_keys, current_index, compromised_keys, km_pc, key_to_remove,
            returned, rotations, rotation_start, used_key, key_before>>

VARIABLES
    \* TTLCache configuration (fixed at construction)
    max_size,
    \* TTLCache fields
    cache,               \* self.cache: entries in the order of the OrderedDict, oldest first
    \* environment of the cache
    tc_now,              \* time.time()
    \* history variables (observers, never read by the modelled code)
    tc_returned,         \* <<method, argument, value>> of the call that returned last, at this instant
    tc_evicted           \* the key that call deleted to make room (NoEviction = none)

tcVars == <<max_size, cache, tc_now, tc_returned, tc_evicted>>

VARIABLES
    \* APIKeyManager, the class: the singleton of __new__
    instance,            \* cls._instance (NoInstance = None)
    instance_lock,       \* the thread inside `with cls._lock:` (NoThread = free)
    objects,             \* objects made by super().__new__(cls) so far
    initialized,         \* the objects whose _initialize() has finished
    new_pc,              \* per thread, inside __new__: "idle" | "lock" | "create" | "initialize" | "unlock"
    \* module-level objects made on first use
    module_global,       \* per accessor: _gemini_breaker, _gemini_rate_limiter, _schema_cache
    acc_objects,         \* per accessor: objects constructed so far
    acc_pc,              \* per thread, inside get_*(): <<"idle" | "construct" | "return", accessor>>
    \* history variables (observers, never read by the modelled code)
    initialize_runs,     \* calls of _initialize() that have finished
    obtained,            \* per thread: the object APIKeyManager() returned to it last
    use_result,          \* per thread: outcome of its last method call on that object
    handed_out           \* per accessor: the objects it has returned so far

newVars == <<instance, instance_lock, objects, initialized, initialize_runs,
             new_pc, obtained, use_result>>
accVars == <<module_global, acc_objects, acc_pc, handed_out>>
sgVars == <<newVars, accVars>>

VARIABLES
    \* history variable: what the breaker's get_stats() returned last,
    \* <<"state", "time_until_reset">> of the dict
    cb_stats

VARIABLES
    \* WorkflowLockManager fields
    locks,               \* _locks: per session its RLock (NoLock = no entry)
    lock_times,          \* _lock_times: per session when its lock was created
    last_cleanup,        \* _last_cleanup
    \* the RLock objects and the clock
    lock_objects,        \* RLocks created so far (they are numbered 1, 2, ...)
    lock_owner,          \* per RLock: the thread that holds it (NoOwner = free)
    wl_now,              \* time.time() / datetime.now()
    wl_ticks,            \* how often that clock has advanced
    \* callers of workflow_lock
    wl_pc,               \* per caller: "idle" | "acquire" | "inside"
    wl_session,          \* per caller: the session_id of its block
    wl_lock,             \* per caller: the lock get_lock() returned to it
    wl_result            \* per caller: "none" | "entered" | "TimeoutError"

wlVars == <<locks, lock_times, last_cleanup, lock_objects, lock_owner, wl_now,
            wl_ticks, wl_pc, wl_session, wl_lock, wl_result>>

VARIABLES
    \* state_transaction(state, auto_commit) and its StateTransaction
    working_state,       \* the caller's state dict (txn.working_state refers to it)
    original_state,      \* txn.original_state, the deep copy made at entry
    auto_commit,         \* the auto_commit argument
    committed,           \* txn.committed
    rolled_back,         \* txn.rolled_back
    tx_pc,               \* "idle" | "body" | "done"
    tx_outcome           \* how the with statement ended: "none" | "normal" | the exception that left it

txVars == <<working_state, original_state, auto_commit, committed, rolled_back,
            tx_pc, tx_outcome>>

vars == <<cbVars, rlVars, kmVars, tcVars, sgVars, cb_stats, wlVars, txVars>>

\* What a step of one component leaves alone
notCB == <<rlVars, kmVars, tcVars, sgVars, cb_stats, wlVars, txVars>>
notRL == <<cbVars, kmVars, tcVars, sgVars, cb_stats, wlVars, txVars>>
notKM == <<cbVars, rlVars, tcVars, sgVars, cb_stats, wlVars, txVars>>
notTC == <<cbVars, rlVars, kmVars, sgVars, cb_stats, wlVars, txVars>>
notSG == <<cbVars, rlVars, kmVars, tcVars, cb_stats, wlVars, txVars>>
notStats == <<cbVars, rlVars, kmVars, tcVars, sgVars, wlVars, txVars>>
notWL == <<cbVars, rlVars, kmVars, tcVars, sgVars, cb_stats, txVars>>
notTX == <<cbVars, rlVars, kmVars, tcVars, sgVars, cb_stats, wlVars>>

NoSnapshot == <<>>

\* ------------------------------------------------------- CircuitBreaker
\* (variant: recovery attempted without waiting for the timeout)
should_attempt_reset_no_wait(t) ==
    last_failure_time # NoTime

\* (variant: the elapsed time taken with the operands swapped)
should_attempt_reset_swapped(t) ==
    IF last_failure_time = NoTime
    THEN FALSE
    ELSE last_failure_time - t >= timeout_seconds

\* _should_attempt_reset, with the clock reading t
should_attempt_reset(t) ==
    IF last_failure_time = NoTime
    THEN FALSE
    ELSE t - last_failure_time >= timeout_seconds

\* The `state` property: the value it returns (lazy OPEN -> HALF_OPEN)
state_property(t) ==
    IF state = "open" /\ should_attempt_reset(t) THEN "half_open" ELSE state

\* (variant: a state query keeps the probe calls counted so far)
half_open_calls_kept_by_query(t) == half_open_calls

\* _transition_to_half_open resets _half_open_calls; otherwise it is kept
half_open_calls_after_query(t) ==
    IF state = "open" /\ should_attempt_reset(t) THEN 0 ELSE half_open_calls

\* (variant: the cap compared with > instead of >=)
half_open_limit_reached_late(calls) == calls > half_open_max_calls

\* call(): the HALF_OPEN admission cap
half_open_limit_reached(calls) == calls >= half_open_max_calls

\* (variant: the threshold compared with > instead of >=)
threshold_reached_late(count) == count > failure_threshold

\* _on_failure: the CLOSED/OPEN branch trips when the threshold is reached
threshold_reached(count) == count >= failure_threshold

\* (variant: a success leaves the failure count as it is)
failure_count_kept(count) == count

\* _on_success in CLOSED: `self._failure_count = 0`
failure_count_after_success(count) == 0

\* _on_success in HALF_OPEN: enough successes to close
recovered(count) == count >= half_open_max_calls

\* (variant: an exception outside expected_exception is swallowed and the
\* call returns normally)
call_outcome_swallowing(produced) ==
    IF produced = "uncounted" THEN "ok" ELSE produced

\* call(): `return result` and the bare `raise` of both except clauses give
\* the caller what func produced: its result ("ok"), an exception of
\* expected_exception ("counted") or any other exception ("uncounted")
call_outcome(produced) == produced

\* History of half-open episodes, derived from the step alone: an episode
\* starts when the state becomes HALF_OPEN and ends when it leaves it.
Episode(t, succeeded) ==
    LET entered  == state' = "half_open" /\ state # "half_open"
        inside   == state' = "half_open"
        admitted == pc[t] = "idle" /\ pc'[t] = "admitted" /\ inside
    IN  /\ episode_admitted' =
              (IF inside /\ ~entered THEN episode_admitted ELSE 0)
              + (IF admitted THEN 1 ELSE 0)
        /\ episode_successes' =
              IF inside /\ ~entered
              THEN episode_successes + (IF succeeded /\ probe[t] THEN 1 ELSE 0)
              ELSE 0
        /\ probe' = [u \in Threads |->
              IF u = t
              THEN admitted
              ELSE IF inside /\ ~entered THEN probe[u] ELSE FALSE]

\* Same, for a step no caller takes (state query, reset)
EpisodeNoCaller ==
    LET entered == state' = "half_open" /\ state # "half_open"
        inside  == state' = "half_open"
    IN  /\ episode_admitted' = (IF inside /\ ~entered THEN episode_admitted ELSE 0)
        /\ episode_successes' = (IF inside /\ ~entered THEN episode_successes ELSE 0)
        /\ probe' = [u \in Threads |-> IF inside /\ ~entered THEN probe[u] ELSE FALSE]

\* call(), first locked block: count the call, read `state`, admit or reject
CallAdmission(t) ==
    /\ pc[t] = "idle"
    /\ total_calls < MaxCalls
    /\ total_calls' = total_calls + 1
    /\ LET current_state == state_property(now)
           calls == half_open_calls_after_query(now)
       IN  /\ state' = current_state
           /\ IF current_state = "open"
              THEN /\ half_open_calls' = calls
                   /\ pc' = pc
                   /\ result' = [result EXCEPT ![t] = "rejected_open"]
              ELSE IF current_state = "half_open"
              THEN IF half_open_limit_reached(calls)
                   THEN /\ half_open_calls' = calls
                        /\ pc' = pc
                        /\ result' = [result EXCEPT ![t] = "rejected_probing"]
                   ELSE /\ half_open_calls' = calls + 1
                        /\ pc' = [pc EXCEPT ![t] = "admitted"]
                        /\ result' = [result EXCEPT ![t] = "none"]
              ELSE /\ half_open_calls' = calls
                   /\ pc' = [pc EXCEPT ![t] = "admitted"]
                   /\ result' = [result EXCEPT ![t] = "none"]
    /\ UNCHANGED <<failure_count, success_count, last_failure_time, now, streak>>
    /\ Episode(t, FALSE)
    /\ UNCHANGED notCB

CallEnter(t) ==
    /\ CallAdmission(t)
    /\ UNCHANGED pre

\* The same call() entry, with the breaker's fields recorded as they were
\* when the call was made (single-caller runs)
CallEnterSnap(t) ==
    /\ CallAdmission(t)
    /\ pre' = cbFields

\* call(), after the lock is released: func(*args, **kwargs) starts
Invoke(t) ==
    /\ pc[t] = "admitted"
    /\ pc' = [pc EXCEPT ![t] = "running"]
    /\ UNCHANGED <<state, failure_count, success_count, last_failure_time,
                   half_open_calls, total_calls, now, result, streak, probe,
                   episode_admitted, episode_successes, pre>>
    /\ UNCHANGED notCB

\* func returned: _on_success under the lock
CallSuccess(t) ==
    /\ pc[t] = "running"
    /\ pc' = [pc EXCEPT ![t] = "idle"]
    /\ result' = [result EXCEPT ![t] = call_outcome("ok")]
    /\ IF state = "half_open"
       THEN IF recovered(success_count + 1)
            THEN \* _transition_to_closed
                 /\ state' = "closed"
                 /\ failure_count' = 0
                 /\ success_count' = 0
                 /\ half_open_calls' = 0
            ELSE /\ success_count' = success_count + 1
                 /\ UNCHANGED <<state, failure_count, half_open_calls>>
       ELSE IF state = "closed"
       THEN /\ success_count' = success_count + 1
            /\ failure_count' = failure_count_after_success(failure_count)
            /\ UNCHANGED <<state, half_open_calls>>
       ELSE /\ success_count' = success_count + 1
            /\ UNCHANGED <<state, failure_count, half_open_calls>>
    /\ streak' = 0
    /\ UNCHANGED <<last_failure_time, total_calls, now, pre>>
    /\ Episode(t, TRUE)
    /\ UNCHANGED notCB

\* func raised expected_exception: _on_failure under the lock
CallCounted(t) ==
    /\ pc[t] = "running"
    /\ pc' = [pc EXCEPT ![t] = "idle"]
    /\ result' = [result EXCEPT ![t] = call_outcome("counted")]
    /\ failure_count' = failure_count + 1
    /\ last_failure_time' = now
    /\ IF state = "half_open"
       THEN state' = "open"
       ELSE IF threshold_reached(failure_count + 1)
       THEN state' = "open"
       ELSE state' = state
    /\ streak' = streak + 1
    /\ UNCHANGED <<success_count, half_open_calls, total_calls, now, pre>>
    /\ Episode(t, FALSE)
    /\ UNCHANGED notCB

\* func raised something else: re-raised, no bookkeeping
CallUncounted(t) ==
    /\ pc[t] = "running"
    /\ pc' = [pc EXCEPT ![t] = "idle"]
    /\ result' = [result EXCEPT ![t] = call_outcome("uncounted")]
    /\ UNCHANGED <<state, failure_count, success_count, last_failure_time,
                   half_open_calls, total_calls, now, streak, pre>>
    /\ Episode(t, FALSE)
    /\ UNCHANGED notCB

\* (variant: a reset keeps the successes counted so far)
success_count_kept_by_reset(count) == count

\* _transition_to_closed: self._success_count = 0
success_count_after_reset(count) == 0

\* reset(): _transition_to_closed
Reset ==
    /\ state' = "closed"
    /\ failure_count' = 0
    /\ success_count' = success_count_after_reset(success_count)
    /\ half_open_calls' = 0
    /\ streak' = 0
    /\ UNCHANGED <<last_failure_time, total_calls, now, pc, result, pre>>
    /\ EpisodeNoCaller
    /\ UNCHANGED notCB

\* A read of the `state` property from outside call()
StateQuery ==
    /\ state = "open"
    /\ should_attempt_reset(now)
    /\ state' = state_property(now)
    /\ half_open_calls' = half_open_calls_after_query(now)
    /\ UNCHANGED <<failure_count, success_count, last_failure_time, total_calls,
                   now, pc, result, streak, pre>>
    /\ EpisodeNoCaller
    /\ UNCHANGED notCB

\* _time_until_reset, with the clock reading t
time_until_reset(t) ==
    IF last_failure_time = NoTime
    THEN 0
    ELSE IF timeout_seconds - (t - last_failure_time) > 0
    THEN timeout_seconds - (t - last_failure_time)
    ELSE 0

\* No get_stats() call yet
NoStats == <<"none", 0>>

\* CircuitBreaker.get_stats(): reads _state (the field, not the `state`
\* property) and the counters under the lock
CircuitGetStats ==
    /\ cb_stats' = <<state, IF state = "open" THEN time_until_reset(now) ELSE 0>>
    /\ UNCHANGED notStats

\* The clock advances
Tick ==
    /\ now < MaxTime
    /\ now' = now + 1
    /\ UNCHANGED <<state, failure_count, success_count, last_failure_time,
                   half_open_calls, total_calls, pc, result, streak, probe,
                   episode_admitted, episode_successes, pre>>
    /\ UNCHANGED notCB

InitCB ==
    /\ state = "closed"
    /\ failure_count = 0
    /\ success_count = 0
    /\ last_failure_time = NoTime
    /\ half_open_calls = 0
    /\ total_calls = 0
    /\ now = 0
    /\ pc = [t \in Threads |-> "idle"]
    /\ result = [t \in Threads |-> "none"]
    /\ streak = 0
    /\ probe = [t \in Threads |-> FALSE]
    /\ episode_admitted = 0
    /\ episode_successes = 0
    /\ cb_stats = NoStats
    /\ pre = NoSnapshot

\* ---------------------------------------------------------- RateLimiter
\* Limits used for checking (constructor arguments); the hour and day limits
\* are the values a configured tier gets.
requests_per_minute == 1
HourLimit == 2
DayLimit == 2
\* The clock advances at most MaxTicks times; total_blocked is followed up
\* to MaxBlocked and then stays there.
MaxTicks == 2
MaxBlocked == 1

\* Window lengths of _clean_old_requests
MinuteSeconds == 60
HourSeconds == 3600
DaySeconds == 86400

\* acquire(timeout=None)
NoTimeout == -1

\* Clock advances: they put the clock on and just past the edge of every
\* window (0 -> 60 -> 61, 0 -> 61, 0 -> 3600 -> 3601, 0 -> 86400 -> 86401).
Jumps == {1, MinuteSeconds, MinuteSeconds + 1, HourSeconds, DaySeconds}

\* Clock advances while a caller sits in acquire(): onto and just past the
\* edge of the minute window, and never short of the timeouts in use
WaitJumps == {MinuteSeconds, MinuteSeconds + 1}

\* Timeouts passed to acquire()
Timeouts == {NoTimeout, 0, MinuteSeconds}

\* (variant: a timestamp is kept one second longer)
expired_late(t, stamp, span) == t - stamp > span + 1

\* (variant: a timestamp dropped as soon as it is a full window old)
expired_early(t, stamp, span) == t - stamp >= span

\* _clean_old_requests: the loop condition `now - window[0] > span`
expired(t, stamp, span) == t - stamp > span

\* _clean_old_requests: popleft while the oldest timestamp is expired
RECURSIVE clean(_, _, _)
clean(window, t, span) ==
    IF window # <<>> /\ expired(t, Head(window), span)
    THEN clean(Tail(window), t, span)
    ELSE window

\* deque.append on a deque with maxlen: a full deque drops its oldest entry
deque_append(window, stamp, maxlen) ==
    LET w == Append(window, stamp)
    IN  IF Len(w) > maxlen THEN Tail(w) ELSE w

\* (variant: the limit compared with > instead of >=)
at_limit_late(count, limit) == count > limit

\* try_acquire: `len(window) >= limit`
at_limit(count, limit) == count >= limit

\* (variant: only the minute tier is consulted)
blocked_minute_only(minute, hour, day) ==
    at_limit(Len(minute), requests_per_minute)

\* try_acquire: the three limit checks on the cleaned windows; an empty
\* hour/day deque or a missing limit is falsy and skips its check
blocked(minute, hour, day) ==
    \/ at_limit(Len(minute), requests_per_minute)
    \/ hour # <<>> /\ requests_per_hour # 0 /\ at_limit(Len(hour), requests_per_hour)
    \/ day # <<>> /\ requests_per_day # 0 /\ at_limit(Len(day), requests_per_day)

\* (variant: a rejection is not counted)
count_blocked_never == total_blocked

\* self.total_blocked += 1 (followed up to MaxBlocked)
count_blocked == IF total_blocked < MaxBlocked THEN total_blocked + 1 ELSE total_blocked

\* _clean_old_requests under the lock, as get_stats() and
\* _time_until_available() run it
CleanOldRequests ==
    /\ minute_window' = clean(minute_window, clock, MinuteSeconds)
    /\ hour_window' = clean(hour_window, clock, HourSeconds)
    /\ day_window' = clean(day_window, clock, DaySeconds)

\* _time_until_available on the cleaned minute window, with the clock
\* reading t: 0.0 while the minute window has room, else
\* max(0.0, 60 - (t - minute_window[0])); no other window is read
time_until_available(minute, t) ==
    IF Len(minute) < requests_per_minute
    THEN 0
    ELSE LET wait_time == MinuteSeconds - (t - Head(minute))
         IN  IF wait_time > 0 THEN wait_time ELSE 0

\* try_acquire: "Record request"; hour_window / day_window exist (are not
\* None) exactly when their limit was configured
record(minute, hour, day) ==
    /\ minute_window' = deque_append(minute, clock, requests_per_minute)
    /\ hour_window' = IF requests_per_hour # 0 THEN Append(hour, clock) ELSE hour
    /\ day_window' = IF requests_per_day # 0 THEN Append(day, clock) ELSE day

\* try_acquire(), one locked block; `admit` is the value it returns
try_acquire(admit) ==
    LET minute == clean(minute_window, clock, MinuteSeconds)
        hour   == clean(hour_window, clock, HourSeconds)
        day    == clean(day_window, clock, DaySeconds)
    IN  IF blocked(minute, hour, day)
        THEN /\ admit = FALSE
             /\ minute_window' = minute
             /\ hour_window' = hour
             /\ day_window' = day
             /\ total_blocked' = count_blocked
             /\ UNCHANGED total_requests
        ELSE /\ admit = TRUE
             /\ record(minute, hour, day)
             /\ total_requests' = total_requests + 1
             /\ UNCHANGED total_blocked

Returned(admit) == IF admit THEN "true" ELSE "false"

rlConfig == <<requests_per_hour, requests_per_day>>
rlLocals == <<start_time, timeout, wait_logged>>
NotTried == 0 - 1

\* _lock is free
NoHolder == "nobody"

\* `with self._lock`: the RLock is free, or owned by the caller already;
\* the block leaves it as it found it
CanLock(t) == rl_lock \in {NoHolder, t}

\* (variant: acquire() runs its polling loop inside `with self._lock`)
lock_taken_by_acquire(t) == t

\* acquire() itself takes no lock: only try_acquire() and
\* _time_until_available() do, each for its own block
lock_inside_acquire(t) == NoHolder

\* A caller's try_acquire()
TryAcquire(t) ==
    /\ rl_pc[t] = "idle"
    /\ CanLock(t)
    /\ UNCHANGED rl_lock
    /\ \E admit \in BOOLEAN :
          /\ try_acquire(admit)
          /\ rl_result' = [rl_result EXCEPT ![t] = Returned(admit)]
    /\ tried_at' = [tried_at EXCEPT ![t] = clock]
    /\ UNCHANGED <<rlConfig, clock, ticks, rl_pc, rlLocals>>
    /\ UNCHANGED notRL

\* acquire(timeout): start_time = time.time(); wait_logged = False.
\* A call that has to wait for the clock starts while the clock can advance.
AcquireStart(t, limit) ==
    /\ rl_pc[t] = "idle"
    /\ CanLock(t)
    /\ rl_lock' = lock_inside_acquire(t)
    /\ limit = 0 \/ ticks < MaxTicks
    /\ rl_pc' = [rl_pc EXCEPT ![t] = "poll"]
    /\ start_time' = [start_time EXCEPT ![t] = clock]
    /\ timeout' = [timeout EXCEPT ![t] = limit]
    /\ wait_logged' = [wait_logged EXCEPT ![t] = FALSE]
    /\ rl_result' = [rl_result EXCEPT ![t] = "none"]
    /\ tried_at' = [tried_at EXCEPT ![t] = NotTried]
    /\ UNCHANGED <<rlConfig, minute_window, hour_window, day_window,
                   total_requests, total_blocked, clock, ticks>>
    /\ UNCHANGED notRL

\* acquire: `if self.try_acquire(): return True`
AcquirePoll(t) ==
    /\ rl_pc[t] = "poll"
    /\ CanLock(t)
    /\ \E admit \in BOOLEAN :
          /\ try_acquire(admit)
          /\ IF admit
             THEN /\ rl_pc' = [rl_pc EXCEPT ![t] = "idle"]
                  /\ rl_result' = [rl_result EXCEPT ![t] = "true"]
                  /\ start_time' = [start_time EXCEPT ![t] = 0]
                  /\ timeout' = [timeout EXCEPT ![t] = NoTimeout]
                  /\ wait_logged' = [wait_logged EXCEPT ![t] = FALSE]
             ELSE /\ rl_pc' = [rl_pc EXCEPT ![t] = "check"]
                  /\ UNCHANGED <<rl_result, rlLocals>>
    /\ rl_lock' = IF rl_pc'[t] = "idle" THEN NoHolder ELSE rl_lock
    /\ tried_at' = [tried_at EXCEPT ![t] = clock]
    /\ UNCHANGED <<rlConfig, clock, ticks>>
    /\ UNCHANGED notRL

\* (variant: the timeout is only noticed once it is strictly exceeded)
timed_out_late(t) ==
    timeout[t] # NoTimeout /\ clock - start_time[t] > timeout[t]

\* acquire: `timeout is not None and (time.time() - start_time) >= timeout`
timed_out(t) ==
    timeout[t] # NoTimeout /\ clock - start_time[t] >= timeout[t]

\* acquire: "Check timeout": return False, or go on to wait
AcquireCheck(t) ==
    /\ rl_pc[t] = "check"
    /\ IF timed_out(t)
       THEN /\ rl_pc' = [rl_pc EXCEPT ![t] = "idle"]
            /\ rl_result' = [rl_result EXCEPT ![t] = "false"]
            /\ start_time' = [start_time EXCEPT ![t] = 0]
            /\ timeout' = [timeout EXCEPT ![t] = NoTimeout]
            /\ wait_logged' = [wait_logged EXCEPT ![t] = FALSE]
       ELSE /\ rl_pc' = [rl_pc EXCEPT ![t] = IF wait_logged[t] THEN "sleep" ELSE "log"]
            /\ UNCHANGED <<rl_result, rlLocals>>
    /\ rl_lock' = IF rl_pc'[t] = "idle" THEN NoHolder ELSE rl_lock
    /\ UNCHANGED <<rlConfig, minute_window, hour_window, day_window,
                   total_requests, total_blocked, clock, ticks, tried_at>>
    /\ UNCHANGED notRL

\* acquire: the one-time log line calls _time_until_available(), which
\* cleans the windows under the lock
AcquireLogWait(t) ==
    /\ rl_pc[t] = "log"
    /\ CanLock(t)
    /\ UNCHANGED rl_lock
    /\ CleanOldRequests
    /\ wait_logged' = [wait_logged EXCEPT ![t] = TRUE]
    /\ rl_pc' = [rl_pc EXCEPT ![t] = "sleep"]
    /\ UNCHANGED <<rlConfig, total_requests, total_blocked, clock, ticks,
                   start_time, timeout, rl_result, tried_at>>
    /\ UNCHANGED notRL

\* acquire: time.sleep(0.1), no lock held, then the next poll
AcquireSleep(t) ==
    /\ rl_pc[t] = "sleep"
    /\ UNCHANGED rl_lock
    /\ rl_pc' = [rl_pc EXCEPT ![t] = "poll"]
    /\ UNCHANGED <<rlConfig, minute_window, hour_window, day_window,
                   total_requests, total_blocked, clock, ticks, rlLocals, rl_result,
                   tried_at>>
    /\ UNCHANGED notRL

\* get_stats(): cleans the windows, reads the counters
GetStats ==
    /\ \E t \in Threads : rl_pc[t] = "idle" /\ CanLock(t)
    /\ UNCHANGED rl_lock
    /\ CleanOldRequests
    /\ UNCHANGED <<rlConfig, total_requests, total_blocked, clock, ticks, rl_pc,
                   rlLocals, rl_result, tried_at>>
    /\ UNCHANGED notRL

\* RateLimiter.reset()
ResetLimiter ==
    /\ \E t \in Threads : rl_pc[t] = "idle" /\ CanLock(t)
    /\ UNCHANGED rl_lock
    /\ minute_window' = <<>>
    /\ hour_window' = <<>>
    /\ day_window' = <<>>
    /\ total_requests' = 0
    /\ total_blocked' = 0
    /\ UNCHANGED <<rlConfig, clock, ticks, rl_pc, rlLocals, rl_result, tried_at>>
    /\ UNCHANGED notRL

\* time.time() advances
TickLimiter(d) ==
    /\ ticks < MaxTicks
    /\ UNCHANGED rl_lock
    /\ ticks' = ticks + 1
    /\ clock' = clock + d
    /\ UNCHANGED <<rlConfig, minute_window, hour_window, day_window,
                   total_requests, total_blocked, rl_pc, rlLocals, rl_result,
                   tried_at>>
    /\ UNCHANGED notRL

\* RateLimiter.__init__, for each choice of configured tiers
InitRL ==
    /\ requests_per_hour \in {0, HourLimit}
    /\ requests_per_day \in {0, DayLimit}
    /\ minute_window = <<>>
    /\ hour_window = <<>>
    /\ day_window = <<>>
    /\ total_requests = 0
    /\ total_blocked = 0
    /\ clock = 0
    /\ ticks = 0
    /\ rl_pc = [t \in Threads |-> "idle"]
    /\ start_time = [t \in Threads |-> 0]
    /\ timeout = [t \in Threads |-> NoTimeout]
    /\ wait_logged = [t \in Threads |-> FALSE]
    /\ rl_result = [t \in Threads |-> "none"]
    /\ tried_at = [t \in Threads |-> NotTried]
    /\ rl_lock = NoHolder

\* Callers of try_acquire(), with get_stats() and reset()
NextRL ==
    \/ \E t \in Threads : TryAcquire(t)
    \/ GetStats
    \/ ResetLimiter
    \/ \E d \in Jumps : TickLimiter(d)

\* One caller blocked in acquire() while the other uses try_acquire()
Waiter == "t1"

NextRLAcquire ==
    \/ \E t \in Threads : TryAcquire(t)
    \/ \E limit \in Timeouts : AcquireStart(Waiter, limit)
    \/ AcquirePoll(Waiter)
    \/ AcquireCheck(Waiter)
    \/ AcquireLogWait(Waiter)
    \/ AcquireSleep(Waiter)
    \/ ResetLimiter
    \/ \E d \in WaitJumps : TickLimiter(d)

\* -------------------------------------------------------- APIKeyManager
\* Key strings found in the environment
Keys == {"A", "B", "C"}
\* os.getenv of an entry that is not set (None, or an empty string); also
\* the None that get_current_google_key() and current_key=None stand for
NoKey == "None"

\* Entries 0..LastEntry are read: 0 is GOOGLE_API_KEY and i is
\* GOOGLE_API_KEY<i> (the source reads up to GOOGLE_API_KEY10)
LastEntry == 2

Range(s) == {s[i] : i \in 1..Len(s)}

\* Environments, up to renaming of the keys: "B" is only used after "A",
\* "C" only after "B"
Environments ==
    {e \in [0..LastEntry -> Keys \cup {NoKey}] :
        \A i \in 0..LastEntry :
            /\ e[i] = "B" => \E j \in 0..(i - 1) : e[j] = "A"
            /\ e[i] = "C" => \E j \in 0..(i - 1) : e[j] = "B"}

\* _load_google_keys: the loop over GOOGLE_API_KEY2 .. (no duplicate test)
RECURSIVE load_numbered(_, _, _)
load_numbered(keys, e, i) ==
    IF i > LastEntry
    THEN keys
    ELSE load_numbered(IF e[i] # NoKey THEN Append(keys, e[i]) ELSE keys, e, i + 1)

\* _load_google_keys: GOOGLE_API_KEY, then GOOGLE_API_KEY1 unless it is
\* already in the list, then the numbered entries
load_google_keys(e) ==
    LET primary == IF e[0] # NoKey THEN <<e[0]>> ELSE <<>>
        first   == IF e[1] # NoKey /\ e[1] \notin Range(primary)
                   THEN Append(primary, e[1])
                   ELSE primary
    IN  load_numbered(first, e, 2)

\* list.remove(key): drops the first occurrence only
RECURSIVE list_remove(_, _)
list_remove(keys, key) ==
    IF keys = <<>>
    THEN <<>>
    ELSE IF Head(keys) = key
    THEN Tail(keys)
    ELSE <<Head(keys)>> \o list_remove(Tail(keys), key)

\* get_current_google_key: None for an empty pool, else
\* _google_keys[_current_index % len(_google_keys)]
get_current_google_key ==
    IF google_keys = <<>>
    THEN NoKey
    ELSE google_keys[(current_index % Len(google_keys)) + 1]

\* (variant: the index is not adjusted after a removal)
index_after_removal_kept(index, keys) == index

\* _remove_compromised_key: "Adjust current index if needed"
index_after_removal(index, keys) ==
    IF index >= Len(keys) /\ keys # <<>> THEN 0 ELSE index

\* (variant: the next index is not wrapped at the end of the pool)
next_index_no_wrap(index, n) == (index + 1) % (n + 1)

\* rotate_google_key: (_current_index + 1) % len(_google_keys)
next_index(index, n) == (index + 1) % n

\* rotate_google_key: False when there is at most one key
can_rotate == Len(google_keys) > 1

\* (variant: exhausted quota is recognised by "429" and "quota" only)
is_quota_short(error) == "429" \in error \/ "quota" \in error

\* handle_api_error: an error message is the set of the marker substrings
\* it contains; `"leaked" in error_str or "compromised" in error_str`
is_leaked(error) == "leaked" \in error \/ "compromised" \in error

\* handle_api_error: `"429" in str(error) or "resource exhausted" in
\* error_str or "quota" in error_str`
is_quota(error) ==
    "429" \in error \/ "resource exhausted" \in error \/ "quota" \in error

\* Error messages handed to handle_api_error
Errors ==
    {{"leaked"}, {"compromised"}, {"429"}, {"resource exhausted"}, {"quota"},
     {"timeout"}, {"leaked", "quota"}}

\* Indexes handed to rotate_to_specific_key
Indexes == (0 - 1)..(LastEntry + 1)

\* History of rotations in a row, derived from the step alone
RotationHistory(rotated) ==
    IF rotated
    THEN /\ rotations' = (rotations + 1) % Len(google_keys)
         /\ rotation_start' = IF rotations = 0 THEN current_index ELSE rotation_start
    ELSE IF google_keys' = google_keys /\ current_index' = current_index
    THEN UNCHANGED <<rotations, rotation_start>>
    ELSE /\ rotations' = 0
         /\ rotation_start' = 0

kmFields == <<google_keys, current_index, compromised_keys>>

\* get_current_google_key(), one locked block
GetCurrentGoogleKey ==
    /\ UNCHANGED <<used_key, key_before>>
    /\ returned' = <<"get_current_google_key", get_current_google_key>>
    /\ UNCHANGED <<kmFields, km_pc, key_to_remove, rotations, rotation_start>>
    /\ UNCHANGED notKM

\* rotate_google_key(), one locked block; `ok` is the value it returns
rotate_google_key(ok) ==
    IF can_rotate
    THEN /\ ok = TRUE
         /\ current_index' = next_index(current_index, Len(google_keys))
         /\ UNCHANGED <<google_keys, compromised_keys>>
    ELSE /\ ok = FALSE
         /\ UNCHANGED kmFields

\* A caller's rotate_google_key()
RotateGoogleKey ==
    /\ UNCHANGED <<used_key, key_before>>
    /\ \E ok \in BOOLEAN :
          /\ rotate_google_key(ok)
          /\ returned' = <<"rotate_google_key", ok>>
          /\ RotationHistory(ok)
    /\ UNCHANGED <<km_pc, key_to_remove>>
    /\ UNCHANGED notKM

\* _remove_compromised_key(key), one locked block; `removed` is the value
\* it returns
remove_compromised_key(key, removed) ==
    IF key \in Range(google_keys)
    THEN /\ removed = TRUE
         /\ compromised_keys' = compromised_keys \cup {key}
         /\ google_keys' = list_remove(google_keys, key)
         /\ current_index' = index_after_removal(current_index, list_remove(google_keys, key))
    ELSE /\ removed = FALSE
         /\ UNCHANGED kmFields

\* A caller's _remove_compromised_key(key)
RemoveCompromisedKey(key) ==
    /\ UNCHANGED <<used_key, key_before>>
    /\ \E removed \in BOOLEAN :
          /\ remove_compromised_key(key, removed)
          /\ returned' = <<"_remove_compromised_key", removed>>
    /\ RotationHistory(FALSE)
    /\ UNCHANGED <<km_pc, key_to_remove>>
    /\ UNCHANGED notKM

\* rotate_to_specific_key(index), one locked block
RotateToSpecificKey(index) ==
    /\ UNCHANGED <<used_key, key_before>>
    /\ IF index < 0 \/ index >= Len(google_keys)
       THEN /\ returned' = <<"rotate_to_specific_key", FALSE>>
            /\ UNCHANGED current_index
       ELSE /\ returned' = <<"rotate_to_specific_key", TRUE>>
            /\ current_index' = index
    /\ UNCHANGED <<google_keys, compromised_keys, km_pc, key_to_remove>>
    /\ RotationHistory(FALSE)
    /\ UNCHANGED notKM

\* reset_rotation(), one locked block
ResetRotation ==
    /\ UNCHANGED <<used_key, key_before>>
    /\ current_index' = 0
    /\ returned' = <<"reset_rotation", NoKey>>
    /\ UNCHANGED <<google_keys, compromised_keys, km_pc, key_to_remove>>
    /\ RotationHistory(FALSE)
    /\ UNCHANGED notKM

\* handle_api_error(error, current_key) up to its first write: a leaked key
\* is picked (current_key, or the current key read under the lock) and the
\* caller goes on to remove it; exhausted quota rotates at once; anything
\* else returns False
HandleApiError(t, error, current_key) ==
    /\ km_pc[t] = "idle"
    /\ LET key == IF current_key # NoKey THEN current_key ELSE get_current_google_key
       IN  IF is_leaked(error) /\ key # NoKey
           THEN /\ km_pc' = [km_pc EXCEPT ![t] = "remove"]
                /\ key_to_remove' = [key_to_remove EXCEPT ![t] = key]
                /\ UNCHANGED <<kmFields, returned, rotations, rotation_start>>
           ELSE IF is_quota(error)
           THEN /\ \E ok \in BOOLEAN :
                      /\ rotate_google_key(ok)
                      /\ returned' = <<"handle_api_error", ok>>
                      /\ RotationHistory(ok)
                /\ UNCHANGED <<km_pc, key_to_remove>>
           ELSE /\ returned' = <<"handle_api_error", FALSE>>
                /\ UNCHANGED <<kmFields, km_pc, key_to_remove, rotations, rotation_start>>
    /\ used_key' = [used_key EXCEPT ![t] = IF km_pc'[t] = "remove" THEN @ ELSE NoKey]
    /\ key_before' = [key_before EXCEPT ![t] =
                         IF km_pc'[t] = "remove" THEN get_current_google_key ELSE NoKey]
    /\ UNCHANGED notKM

\* handle_api_error: self._remove_compromised_key(key_to_remove)
HandleRemove(t) ==
    /\ km_pc[t] = "remove"
    /\ \E removed \in BOOLEAN : remove_compromised_key(key_to_remove[t], removed)
    /\ km_pc' = [km_pc EXCEPT ![t] = "rotate"]
    /\ key_to_remove' = [key_to_remove EXCEPT ![t] = NoKey]
    /\ RotationHistory(FALSE)
    /\ UNCHANGED returned
    /\ UNCHANGED <<used_key, key_before>>
    /\ UNCHANGED notKM

\* handle_api_error: return self.rotate_google_key()
HandleRotate(t) ==
    /\ km_pc[t] = "rotate"
    /\ \E ok \in BOOLEAN :
          /\ rotate_google_key(ok)
          /\ returned' = <<"handle_api_error", ok>>
          /\ RotationHistory(ok)
    /\ km_pc' = [km_pc EXCEPT ![t] = "idle"]
    /\ used_key' = [used_key EXCEPT ![t] = NoKey]
    /\ key_before' = [key_before EXCEPT ![t] = NoKey]
    /\ UNCHANGED key_to_remove
    /\ UNCHANGED notKM

\* An environment without any key
NoEnvironment == [i \in 0..LastEntry |-> NoKey]

\* A caller reads the current key and makes its API call with it
CallWithCurrentKey(t) ==
    /\ km_pc[t] = "idle"
    /\ get_current_google_key # NoKey
    /\ used_key' = [used_key EXCEPT ![t] = get_current_google_key]
    /\ UNCHANGED key_before
    /\ returned' = <<"get_current_google_key", get_current_google_key>>
    /\ UNCHANGED <<kmFields, km_pc, key_to_remove, rotations, rotation_start>>
    /\ UNCHANGED notKM

\* That call failed and the caller hands the error to handle_api_error,
\* without current_key
ReportError(t, error) ==
    /\ used_key[t] # NoKey
    /\ HandleApiError(t, error, NoKey)

\* _initialize, for an environment out of envs
InitKM(envs) ==
    /\ \E e \in envs : google_keys = load_google_keys(e)
    /\ current_index = 0
    /\ compromised_keys = {}
    /\ km_pc = [t \in Threads |-> "idle"]
    /\ key_to_remove = [t \in Threads |-> NoKey]
    /\ returned = <<"none", NoKey>>
    /\ rotations = 0
    /\ rotation_start = 0
    /\ used_key = [t \in Threads |-> NoKey]
    /\ key_before = [t \in Threads |-> NoKey]

\* Callers of the key manager, interleaved at its locked blocks
NextKeys ==
    \/ GetCurrentGoogleKey
    \/ RotateGoogleKey
    \/ \E key \in Keys : RemoveCompromisedKey(key)
    \/ \E index \in Indexes : RotateToSpecificKey(index)
    \/ ResetRotation
    \/ \E t \in Threads : \E error \in Errors : \E current_key \in Keys \cup {NoKey} :
          HandleApiError(t, error, current_key)
    \/ \E t \in Threads : HandleRemove(t)
    \/ \E t \in Threads : HandleRotate(t)

\* ------------------------------------------------------------- TTLCache
\* Largest max_size a cache is constructed with, default lifetime of an
\* entry (ttl_seconds of the constructor) and the last instant of the
\* cache's clock
MaxSize == 2
ttl_seconds == 2
MaxClock == 2

\* Cache keys are strings, written as sequences of characters
CacheKeys == {<<"a">>, <<"b">>, <<"a", "b">>}
\* Patterns handed to invalidate_pattern
Patterns == {<<>>, <<"a">>, <<"b">>, <<"a", "b">>, <<"b", "a">>}
Values == {"v1", "v2"}
\* set(key, value): ttl_seconds=None
NoTtl == 0 - 1
\* lifetimes handed to set(): None, or a positive number of seconds below
\* the default
Ttls == {NoTtl} \cup (1..(ttl_seconds - 1))
\* the None of get() and of the methods that return nothing
Absent == "None"
\* no key was deleted to make room
NoEviction == <<>>
\* no call has returned since the clock moved
NothingReturned == <<"none", <<>>, Absent>>

\* `pattern in k` on strings: pattern is a contiguous part of k
is_substring(pattern, k) ==
    \E i \in 0..(Len(k) - Len(pattern)) :
        SubSeq(k, i + 1, i + Len(pattern)) = pattern

\* self.cache.keys()
stored_keys(c) == {c[i].key : i \in 1..Len(c)}

\* self.cache[key]
entry_of(c, key) == c[CHOOSE i \in 1..Len(c) : c[i].key = key]

\* del self.cache[key], for each key of a set
delete_keys(c, keys) == SelectSeq(c, LAMBDA e : e.key \notin keys)

\* self.cache[key] = {...}; self.cache.move_to_end(key): a new key is
\* appended, a stored key is overwritten, and either way it ends up last
store_last(c, entry) == Append(delete_keys(c, {entry.key}), entry)

\* self.cache.move_to_end(key)
move_to_end(c, key) == Append(delete_keys(c, {key}), entry_of(c, key))

\* (variant: an entry is taken as expired from the instant expires_at on)
is_expired_early(entry, t) == t >= entry.expires_at

\* `current_time > entry["expires_at"]`
is_expired(entry, t) == t > entry.expires_at

\* (variant: room is made only once the cache is over max_size)
must_evict_late(c, key, size) == key \notin stored_keys(c) /\ Len(c) > size

\* set: `key not in self.cache and len(self.cache) >= self.max_size`
must_evict(c, key, size) == key \notin stored_keys(c) /\ Len(c) >= size

\* (variant: the entry used last is evicted)
newest_key(c) == c[Len(c)].key

\* set: next(iter(self.cache)), the first key in the order of the dict
oldest_key(c) == c[1].key

\* get(key), one locked block
Get(key) ==
    /\ IF key \notin stored_keys(cache)
       THEN /\ tc_returned' = <<"get", key, Absent>>
            /\ UNCHANGED cache
       ELSE IF is_expired(entry_of(cache, key), tc_now)
       THEN /\ cache' = delete_keys(cache, {key})
            /\ tc_returned' = <<"get", key, Absent>>
       ELSE /\ cache' = move_to_end(cache, key)
            /\ tc_returned' = <<"get", key, entry_of(cache, key).value>>
    /\ tc_evicted' = NoEviction
    /\ UNCHANGED <<max_size, tc_now>>
    /\ UNCHANGED notTC

\* set(key, value, ttl_seconds), one locked block; next() of an iterator
\* over an empty dict raises StopIteration, and nothing is stored
Set(key, value, ttl) ==
    /\ LET lifetime == IF ttl # NoTtl THEN ttl ELSE ttl_seconds
           entry == [key |-> key, value |-> value, expires_at |-> tc_now + lifetime]
       IN  IF must_evict(cache, key, max_size)
           THEN IF cache = <<>>
                THEN /\ tc_returned' = <<"set", key, "StopIteration">>
                     /\ tc_evicted' = NoEviction
                     /\ UNCHANGED cache
                ELSE /\ cache' = store_last(delete_keys(cache, {oldest_key(cache)}), entry)
                     /\ tc_returned' = <<"set", key, value>>
                     /\ tc_evicted' = oldest_key(cache)
           ELSE /\ cache' = store_last(cache, entry)
                /\ tc_returned' = <<"set", key, value>>
                /\ tc_evicted' = NoEviction
    /\ UNCHANGED <<max_size, tc_now>>
    /\ UNCHANGED notTC

\* invalidate(key), one locked block
Invalidate(key) ==
    /\ cache' = delete_keys(cache, {key})
    /\ tc_returned' = <<"invalidate", key, key \in stored_keys(cache)>>
    /\ tc_evicted' = NoEviction
    /\ UNCHANGED <<max_size, tc_now>>
    /\ UNCHANGED notTC

\* invalidate_pattern(pattern), one locked block
InvalidatePattern(pattern) ==
    /\ LET keys_to_delete == {k \in stored_keys(cache) : is_substring(pattern, k)}
       IN  /\ cache' = delete_keys(cache, keys_to_delete)
           /\ tc_returned' = <<"invalidate_pattern", pattern, Cardinality(keys_to_delete)>>
    /\ tc_evicted' = NoEviction
    /\ UNCHANGED <<max_size, tc_now>>
    /\ UNCHANGED notTC

\* clear(), one locked block
Clear ==
    /\ cache' = <<>>
    /\ tc_returned' = <<"clear", <<>>, Absent>>
    /\ tc_evicted' = NoEviction
    /\ UNCHANGED <<max_size, tc_now>>
    /\ UNCHANGED notTC

\* cleanup_expired(), one locked block
CleanupExpired ==
    /\ LET expired_keys ==
              {k \in stored_keys(cache) : is_expired(entry_of(cache, k), tc_now)}
       IN  /\ cache' = delete_keys(cache, expired_keys)
           /\ tc_returned' = <<"cleanup_expired", <<>>, Cardinality(expired_keys)>>
    /\ tc_evicted' = NoEviction
    /\ UNCHANGED <<max_size, tc_now>>
    /\ UNCHANGED notTC

\* time.time() moves on
TickCache ==
    /\ tc_now < MaxClock
    /\ tc_now' = tc_now + 1
    /\ tc_returned' = NothingReturned
    /\ tc_evicted' = NoEviction
    /\ UNCHANGED <<max_size, cache>>
    /\ UNCHANGED notTC

\* TTLCache(ttl_seconds, max_size), for each max_size of `sizes`
InitTC(sizes) ==
    /\ max_size \in sizes
    /\ cache = <<>>
    /\ tc_now = 0
    /\ tc_returned = NothingReturned
    /\ tc_evicted = NoEviction

\* Callers of one cache; every method is one locked block
NextCache ==
    \/ \E key \in CacheKeys : Get(key)
    \/ \E key \in CacheKeys : \E value \in Values : \E ttl \in Ttls : Set(key, value, ttl)
    \/ \E key \in CacheKeys : Invalidate(key)
    \/ \E pattern \in Patterns : InvalidatePattern(pattern)
    \/ Clear
    \/ CleanupExpired
    \/ TickCache

\* ------------------------------------------------- process-wide instances
\* None, for a module-level name or class attribute that holds no object yet;
\* objects are numbered in the order they are constructed
NoInstance == 0
\* no thread holds APIKeyManager._lock
NoThread == "None"

\* The accessors that create their object on first use:
\* get_gemini_circuit_breaker, get_gemini_rate_limiter, get_schema_cache
\* (get_product_cache and get_advanced_params_cache repeat the last one)
Accessors == {"gemini_breaker", "gemini_rate_limiter", "schema_cache"}

\* APIKeyManager.__new__: the first, unlocked `if cls._instance is None`;
\* an instance that is there is returned at once
NewCheck(t) ==
    /\ new_pc[t] = "idle"
    /\ IF instance = NoInstance
       THEN /\ new_pc' = [new_pc EXCEPT ![t] = "lock"]
            /\ UNCHANGED obtained
       ELSE /\ obtained' = [obtained EXCEPT ![t] = instance]
            /\ UNCHANGED new_pc
    /\ UNCHANGED <<instance, instance_lock, objects, initialized,
                   initialize_runs, use_result, accVars>>
    /\ UNCHANGED notSG

\* __new__: `with cls._lock:` and the second `if cls._instance is None`
NewLock(t) ==
    /\ new_pc[t] = "lock"
    /\ instance_lock = NoThread
    /\ instance_lock' = t
    /\ new_pc' = [new_pc EXCEPT ![t] =
          IF instance = NoInstance THEN "create" ELSE "unlock"]
    /\ UNCHANGED <<instance, objects, initialized, initialize_runs,
                   obtained, use_result, accVars>>
    /\ UNCHANGED notSG

\* __new__: cls._instance = super().__new__(cls)
NewCreate(t) ==
    /\ new_pc[t] = "create"
    /\ objects' = objects + 1
    /\ instance' = objects + 1
    /\ new_pc' = [new_pc EXCEPT ![t] = "initialize"]
    /\ UNCHANGED <<instance_lock, initialized, initialize_runs, obtained,
                   use_result, accVars>>
    /\ UNCHANGED notSG

\* __new__: cls._instance._initialize(), to its end
NewInitialize(t) ==
    /\ new_pc[t] = "initialize"
    /\ initialized' = initialized \cup {instance}
    /\ initialize_runs' = initialize_runs + 1
    /\ new_pc' = [new_pc EXCEPT ![t] = "unlock"]
    /\ UNCHANGED <<instance, instance_lock, objects, obtained,
                   use_result, accVars>>
    /\ UNCHANGED notSG

\* __new__: the end of the `with` block and `return cls._instance`
NewReturn(t) ==
    /\ new_pc[t] = "unlock"
    /\ instance_lock' = NoThread
    /\ obtained' = [obtained EXCEPT ![t] = instance]
    /\ new_pc' = [new_pc EXCEPT ![t] = "idle"]
    /\ UNCHANGED <<instance, objects, initialized, initialize_runs,
                   use_result, accVars>>
    /\ UNCHANGED notSG

\* A thread calls a method of the manager it obtained; the fields the
\* methods read (_rotation_lock, _google_keys) exist once _initialize is done
UseInstance(t) ==
    /\ obtained[t] # NoInstance
    /\ use_result' = [use_result EXCEPT ![t] =
          IF obtained[t] \in initialized THEN "ok" ELSE "AttributeError"]
    /\ UNCHANGED <<instance, instance_lock, objects, initialized, initialize_runs,
                   new_pc, obtained, accVars>>
    /\ UNCHANGED notSG

\* get_*(): `if _x is None:`; an object that is there is returned at once
AccessorCheck(t, a) ==
    /\ acc_pc[t][1] = "idle"
    /\ IF module_global[a] = NoInstance
       THEN /\ acc_pc' = [acc_pc EXCEPT ![t] = <<"construct", a>>]
            /\ UNCHANGED handed_out
       ELSE /\ handed_out' = [handed_out EXCEPT ![a] = @ \cup {module_global[a]}]
            /\ acc_pc' = [acc_pc EXCEPT ![t] = <<"idle", a>>]
    /\ UNCHANGED <<module_global, acc_objects, newVars>>
    /\ UNCHANGED notSG

\* get_*(): `_x = CircuitBreaker(...)` (RateLimiter, TTLCache)
AccessorConstruct(t, a) ==
    /\ acc_pc[t] = <<"construct", a>>
    /\ acc_objects' = [acc_objects EXCEPT ![a] = @ + 1]
    /\ module_global' = [module_global EXCEPT ![a] = acc_objects[a] + 1]
    /\ acc_pc' = [acc_pc EXCEPT ![t] = <<"return", a>>]
    /\ UNCHANGED <<handed_out, newVars>>
    /\ UNCHANGED notSG

\* get_*(): `return _x`, read again from the module
AccessorReturn(t, a) ==
    /\ acc_pc[t] = <<"return", a>>
    /\ handed_out' = [handed_out EXCEPT ![a] = @ \cup {module_global[a]}]
    /\ acc_pc' = [acc_pc EXCEPT ![t] = <<"idle", a>>]
    /\ UNCHANGED <<module_global, acc_objects, newVars>>
    /\ UNCHANGED notSG

\* Nothing constructed yet: no thread has asked for any of the objects
InitSG ==
    /\ instance = NoInstance
    /\ instance_lock = NoThread
    /\ objects = 0
    /\ initialized = {}
    /\ initialize_runs = 0
    /\ new_pc = [t \in Threads |-> "idle"]
    /\ obtained = [t \in Threads |-> NoInstance]
    /\ use_result = [t \in Threads |-> "none"]
    /\ module_global = [a \in Accessors |-> NoInstance]
    /\ acc_objects = [a \in Accessors |-> 0]
    /\ acc_pc = [t \in Threads |-> <<"idle", "none">>]
    /\ handed_out = [a \in Accessors |-> {}]

\* Threads that ask for the process-wide objects, interleaved statement by
\* statement outside the locks
NextInstances ==
    \/ \E t \in Threads : NewCheck(t)
    \/ \E t \in Threads : NewLock(t)
    \/ \E t \in Threads : NewCreate(t)
    \/ \E t \in Threads : NewInitialize(t)
    \/ \E t \in Threads : NewReturn(t)
    \/ \E t \in Threads : UseInstance(t)
    \/ \E t \in Threads : \E a \in Accessors : AccessorCheck(t, a)
    \/ \E t \in Threads : \E a \in Accessors : AccessorConstruct(t, a)
    \/ \E t \in Threads : \E a \in Accessors : AccessorReturn(t, a)

\* --------------------------------------------------- WorkflowLockManager
\* Model bounds of the lock manager
MaxLockObjects == 3
MaxLockTicks == 2

\* self._cleanup_interval = 3600; timedelta(hours=24), in seconds
cleanup_interval == 3600
LockMaxAge == 86400

Sessions == {"s1", "s2"}

\* No entry in _locks / no lock obtained
NoLock == 0
\* The RLock is free
NoOwner == "nobody"
\* No entry in _lock_times
NoLockTime == 0 - 1

\* Clock jumps: a moment, past the cleanup interval, past the age at which
\* a lock counts as old
LockJumps == {1, cleanup_interval + 1, LockMaxAge + 1}

\* get_lock: `time.time() - self._last_cleanup > self._cleanup_interval`
cleanup_due == wl_now - last_cleanup > cleanup_interval

\* _cleanup_old_locks: `lock_time < cutoff`, cutoff = now - 24 hours; the
\* session's entry is dropped whether or not its lock is held
is_old(session) ==
    locks[session] # NoLock /\ lock_times[session] < wl_now - LockMaxAge

\* _locks after the cleanup that get_lock may run
locks_after_cleanup ==
    [s \in Sessions |-> IF cleanup_due /\ is_old(s) THEN NoLock ELSE locks[s]]

lock_times_after_cleanup ==
    [s \in Sessions |-> IF cleanup_due /\ is_old(s) THEN NoLockTime ELSE lock_times[s]]

\* workflow_lock(session_id): lock = _lock_manager.get_lock(session_id),
\* one block under _manager_lock: the cleanup when it is due, a new RLock
\* when the session has no entry, and the session's lock is returned
GetLock(t, session) ==
    /\ wl_pc[t] = "idle"
    /\ last_cleanup' = IF cleanup_due THEN wl_now ELSE last_cleanup
    /\ IF locks_after_cleanup[session] = NoLock
       THEN /\ lock_objects < MaxLockObjects
            /\ lock_objects' = lock_objects + 1
            /\ locks' = [locks_after_cleanup EXCEPT ![session] = lock_objects + 1]
            /\ lock_times' = [lock_times_after_cleanup EXCEPT ![session] = wl_now]
       ELSE /\ locks' = locks_after_cleanup
            /\ lock_times' = lock_times_after_cleanup
            /\ UNCHANGED lock_objects
    /\ wl_lock' = [wl_lock EXCEPT ![t] = locks'[session]]
    /\ wl_session' = [wl_session EXCEPT ![t] = session]
    /\ wl_pc' = [wl_pc EXCEPT ![t] = "acquire"]
    /\ wl_result' = [wl_result EXCEPT ![t] = "none"]
    /\ UNCHANGED <<lock_owner, wl_now, wl_ticks>>
    /\ UNCHANGED notWL

\* workflow_lock: lock.acquire(timeout=timeout) returns True, the body of
\* the with statement starts
AcquireLock(t) ==
    /\ wl_pc[t] = "acquire"
    /\ lock_owner[wl_lock[t]] = NoOwner
    /\ lock_owner' = [lock_owner EXCEPT ![wl_lock[t]] = t]
    /\ wl_pc' = [wl_pc EXCEPT ![t] = "inside"]
    /\ wl_result' = [wl_result EXCEPT ![t] = "entered"]
    /\ UNCHANGED <<locks, lock_times, last_cleanup, lock_objects, wl_now, wl_ticks,
                   wl_session, wl_lock>>
    /\ UNCHANGED notWL

\* workflow_lock: the lock stayed with another thread for the whole
\* timeout, lock.acquire returns False and TimeoutError is raised
AcquireTimeout(t) ==
    /\ wl_pc[t] = "acquire"
    /\ lock_owner[wl_lock[t]] # NoOwner
    /\ wl_pc' = [wl_pc EXCEPT ![t] = "idle"]
    /\ wl_result' = [wl_result EXCEPT ![t] = "TimeoutError"]
    /\ wl_lock' = [wl_lock EXCEPT ![t] = NoLock]
    /\ UNCHANGED <<locks, lock_times, last_cleanup, lock_objects, lock_owner, wl_now,
                   wl_ticks, wl_session>>
    /\ UNCHANGED notWL

\* workflow_lock: the body ends (normally or not), `finally: lock.release()`
ExitLock(t) ==
    /\ wl_pc[t] = "inside"
    /\ lock_owner' = [lock_owner EXCEPT ![wl_lock[t]] = NoOwner]
    /\ wl_pc' = [wl_pc EXCEPT ![t] = "idle"]
    /\ wl_lock' = [wl_lock EXCEPT ![t] = NoLock]
    /\ UNCHANGED <<locks, lock_times, last_cleanup, lock_objects, wl_now, wl_ticks,
                   wl_session, wl_result>>
    /\ UNCHANGED notWL

\* release_lock(session_id), one block under _manager_lock: the entry is
\* deleted, whoever holds or waits for the lock
ReleaseLock(session) ==
    /\ locks[session] # NoLock
    /\ locks' = [locks EXCEPT ![session] = NoLock]
    /\ lock_times' = [lock_times EXCEPT ![session] = NoLockTime]
    /\ UNCHANGED <<last_cleanup, lock_objects, lock_owner, wl_now, wl_ticks, wl_pc,
                   wl_session, wl_lock, wl_result>>
    /\ UNCHANGED notWL

\* The clock advances
TickLocks(d) ==
    /\ wl_ticks < MaxLockTicks
    /\ wl_ticks' = wl_ticks + 1
    /\ wl_now' = wl_now + d
    /\ UNCHANGED <<locks, lock_times, last_cleanup, lock_objects, lock_owner, wl_pc,
                   wl_session, wl_lock, wl_result>>
    /\ UNCHANGED notWL

\* WorkflowLockManager.__init__ (module import), the clock reading 0
InitWL ==
    /\ locks = [s \in Sessions |-> NoLock]
    /\ lock_times = [s \in Sessions |-> NoLockTime]
    /\ last_cleanup = 0
    /\ lock_objects = 0
    /\ lock_owner = [l \in 1..MaxLockObjects |-> NoOwner]
    /\ wl_now = 0
    /\ wl_ticks = 0
    /\ wl_pc = [t \in Threads |-> "idle"]
    /\ wl_session = [t \in Threads |-> "s1"]
    /\ wl_lock = [t \in Threads |-> NoLock]
    /\ wl_result = [t \in Threads |-> "none"]

\* Threads in `with workflow_lock(session)` blocks, callers of
\* release_lock, and the clock
NextLocks ==
    \/ \E t \in Threads : \E session \in Sessions : GetLock(t, session)
    \/ \E t \in Threads : AcquireLock(t)
    \/ \E t \in Threads : AcquireTimeout(t)
    \/ \E t \in Threads : ExitLock(t)
    \/ \E session \in Sessions : ReleaseLock(session)
    \/ \E d \in LockJumps : TickLocks(d)

\* ------------------------------------------------------ state_transaction
\* Keys and values of the state dict; Missing = the key is not in the dict
StateKeys == {"k1", "k2"}
StateValues == {"old", "new"}
Missing == "missing"

\* What the body may raise: "Exception" stands for any subclass of
\* Exception, "KeyboardInterrupt" for a BaseException that is none
Exceptions == {"Exception", "KeyboardInterrupt"}

\* StateTransaction.rollback: working_state.clear(), then
\* working_state.update(original_state)
rollback_state(current, original) == original

\* StateTransaction.rollback(): nothing but a warning once committed
rollback ==
    IF committed
    THEN UNCHANGED <<working_state, rolled_back>>
    ELSE /\ working_state' = rollback_state(working_state, original_state)
         /\ rolled_back' = TRUE

\* `with state_transaction(state, auto_commit) as txn:` up to the yield:
\* StateTransaction.__init__ takes the deep copy
EnterTransaction(flag) ==
    /\ tx_pc \in {"idle", "done"}
    /\ tx_pc' = "body"
    /\ original_state' = working_state
    /\ auto_commit' = flag
    /\ committed' = FALSE
    /\ rolled_back' = FALSE
    /\ tx_outcome' = "none"
    /\ UNCHANGED working_state
    /\ UNCHANGED notTX

\* The body assigns state[key] = value, or deletes the key
BodyWrite(key, value) ==
    /\ tx_pc = "body"
    /\ working_state' = [working_state EXCEPT ![key] = value]
    /\ UNCHANGED <<original_state, auto_commit, committed, rolled_back, tx_pc, tx_outcome>>
    /\ UNCHANGED notTX

\* The body calls txn.commit() (before any rollback: it would raise
\* RuntimeError after one, which is the body raising)
BodyCommit ==
    /\ tx_pc = "body"
    /\ ~rolled_back
    /\ committed' = TRUE
    /\ UNCHANGED <<working_state, original_state, auto_commit, rolled_back, tx_pc, tx_outcome>>
    /\ UNCHANGED notTX

\* The body calls txn.rollback()
BodyRollback ==
    /\ tx_pc = "body"
    /\ rollback
    /\ UNCHANGED <<original_state, auto_commit, committed, tx_pc, tx_outcome>>
    /\ UNCHANGED notTX

\* The body ends normally: the generator resumes after the yield and
\* returns; no statement follows the try block
BodyReturns ==
    /\ tx_pc = "body"
    /\ tx_pc' = "done"
    /\ tx_outcome' = "normal"
    /\ UNCHANGED <<working_state, original_state, auto_commit, committed, rolled_back>>
    /\ UNCHANGED notTX

\* The body raises: `except Exception` rolls back and re-raises; any other
\* BaseException passes through the generator untouched
BodyRaises(exception) ==
    /\ tx_pc = "body"
    /\ tx_pc' = "done"
    /\ tx_outcome' = exception
    /\ IF exception = "Exception"
       THEN rollback
       ELSE UNCHANGED <<working_state, rolled_back>>
    /\ UNCHANGED <<original_state, auto_commit, committed>>
    /\ UNCHANGED notTX

\* A state dict before its first transaction
InitTX ==
    /\ working_state \in [StateKeys -> {"old", Missing}]
    /\ original_state = working_state
    /\ auto_commit = TRUE
    /\ committed = FALSE
    /\ rolled_back = FALSE
    /\ tx_pc = "idle"
    /\ tx_outcome = "none"

\* One thread running with statements on its state dict, one after the other
NextTransactions ==
    \/ \E flag \in BOOLEAN : EnterTransaction(flag)
    \/ \E key \in StateKeys : \E value \in StateValues \cup {Missing} : BodyWrite(key, value)
    \/ BodyCommit
    \/ BodyRollback
    \/ BodyReturns
    \/ \E exception \in Exceptions : BodyRaises(exception)

\* The lock manager and the state dict before any use
InitWS == InitWL /\ InitTX /\ working_state = [key \in StateKeys |-> "old"]

\* The breaker and the limiter are checked with an empty key pool, the key
\* manager and the cache with a limiter of one tier
Init == InitCB /\ InitRL /\ InitKM({NoEnvironment}) /\ InitTC({MaxSize}) /\ InitSG
    /\ InitWS

InitKeys ==
    /\ InitCB
    /\ InitRL /\ requests_per_hour = 0 /\ requests_per_day = 0
    /\ InitKM(Environments)
    /\ InitTC({MaxSize})
    /\ InitSG
    /\ InitWS

InitCache ==
    /\ InitCB
    /\ InitRL /\ requests_per_hour = 0 /\ requests_per_day = 0
    /\ InitKM({NoEnvironment})
    /\ InitTC(0..MaxSize)
    /\ InitSG
    /\ InitWS

InitInstances ==
    /\ InitCB
    /\ InitRL /\ requests_per_hour = 0 /\ requests_per_day = 0
    /\ InitKM({NoEnvironment})
    /\ InitTC({MaxSize})
    /\ InitSG
    /\ InitWS

InitAll ==
    InitCB /\ InitRL /\ InitKM(Environments) /\ InitTC(0..MaxSize) /\ InitSG
    /\ InitWS

NextCB ==
    \/ \E t \in Threads : CallEnter(t)
    \/ \E t \in Threads : Invoke(t)
    \/ \E t \in Threads : CallSuccess(t)
    \/ \E t \in Threads : CallCounted(t)
    \/ \E t \in Threads : CallUncounted(t)
    \/ Reset
    \/ StateQuery
    \/ Tick

SpecCB == Init /\ [][NextCB]_vars

\* The same callers, and readers of get_stats()
NextCBStats ==
    \/ NextCB
    \/ CircuitGetStats

InitCBStats ==
    /\ InitCB
    /\ InitRL /\ requests_per_hour = 0 /\ requests_per_day = 0
    /\ InitKM({NoEnvironment})
    /\ InitTC({MaxSize})
    /\ InitSG
    /\ InitWS

SpecCBStats == InitCBStats /\ [][NextCBStats]_vars

\* A call() that the breaker lets through (it finds the breaker CLOSED, or
\* HALF_OPEN with a free slot, or OPEN with the timeout elapsed)
CallGetsThrough == \E t \in Threads : CallEnter(t) /\ pc'[t] = "admitted"

\* Time keeps advancing and callers keep calling: a call that would be let
\* through is made in the end (calls that would be rejected may be made or
\* not)
SpecCBFair ==
    /\ InitCBStats /\ [][NextCB]_vars
    /\ WF_vars(Tick)
    /\ WF_vars(CallGetsThrough)

\* One caller, no administrative access in between: sequential use
NextCBSolo ==
    \/ CallEnterSnap("t1")
    \/ Invoke("t1")
    \/ CallSuccess("t1")
    \/ CallCounted("t1")
    \/ CallUncounted("t1")
    \/ Tick

SpecCBSolo == Init /\ [][NextCBSolo]_vars

SpecRL == Init /\ [][NextRL]_vars

SpecRLAcquire == Init /\ [][NextRLAcquire]_vars

\* The same, with readers of get_stats()
NextRLWait ==
    \/ NextRLAcquire
    \/ GetStats

SpecRLWait == Init /\ [][NextRLWait]_vars

\* The waiting caller keeps being scheduled and the clock keeps advancing
\* (time.sleep returns only after real time has passed)
WaiterStep ==
    \/ AcquirePoll(Waiter)
    \/ AcquireCheck(Waiter)
    \/ AcquireLogWait(Waiter)
    \/ AcquireSleep(Waiter)

SpecRLAcquireFair ==
    /\ SpecRLAcquire
    /\ WF_vars(WaiterStep)
    /\ WF_vars(\E d \in WaitJumps : TickLimiter(d))

\* Clock jumps while a caller waits without a timeout: to the edge of the
\* minute window, just past it, and past every window
ForeverJumps == WaitJumps \cup {DaySeconds + 1}

\* One caller in acquire() without a timeout, the other using try_acquire()
NextRLForever ==
    \/ \E t \in Threads : TryAcquire(t)
    \/ AcquireStart(Waiter, NoTimeout)
    \/ AcquirePoll(Waiter)
    \/ AcquireCheck(Waiter)
    \/ AcquireLogWait(Waiter)
    \/ AcquireSleep(Waiter)
    \/ \E d \in ForeverJumps : TickLimiter(d)

\* The waiting caller keeps being scheduled and the clock keeps advancing
SpecRLForeverFair ==
    /\ Init /\ [][NextRLForever]_vars
    /\ WF_vars(WaiterStep)
    /\ WF_vars(\E d \in ForeverJumps : TickLimiter(d))

SpecKeys == InitKeys /\ [][NextKeys]_vars

SpecCache == InitCache /\ [][NextCache]_vars

\* Callers that only report errors
NextKeyErrors ==
    \/ \E t \in Threads : \E error \in Errors : \E current_key \in Keys \cup {NoKey} :
          HandleApiError(t, error, current_key)
    \/ \E t \in Threads : HandleRemove(t)
    \/ \E t \in Threads : HandleRotate(t)

SpecKeyErrors == InitKeys /\ [][NextKeyErrors]_vars

\* Callers that make API calls with the current key and report the errors
\* of those calls; the pool holds keys that differ from each other
NextKeyCalls ==
    \/ \E t \in Threads : CallWithCurrentKey(t)
    \/ \E t \in Threads : \E error \in Errors : ReportError(t, error)
    \/ \E t \in Threads : HandleRemove(t)
    \/ \E t \in Threads : HandleRotate(t)
    \/ RotateGoogleKey

InitKeyCalls ==
    /\ InitCB
    /\ InitRL /\ requests_per_hour = 0 /\ requests_per_day = 0
    /\ InitKM({e \in Environments :
                  \A i, j \in 0..LastEntry : e[i] = e[j] /\ e[i] # NoKey => i = j})
    /\ InitTC({MaxSize})
    /\ InitSG
    /\ InitWS

SpecKeyCalls == InitKeyCalls /\ [][NextKeyCalls]_vars

\* One caller that reports errors, nobody else at the key manager; the pool
\* holds keys that differ from each other
NextKeyErrorsSolo ==
    \/ \E error \in Errors : \E current_key \in Keys \cup {NoKey} :
          HandleApiError("t1", error, current_key)
    \/ HandleRemove("t1")
    \/ HandleRotate("t1")

SpecKeyErrorsSolo == InitKeyCalls /\ [][NextKeyErrorsSolo]_vars

\* Every caller of the key manager; the pool holds keys that differ from
\* each other
SpecKeysDistinct == InitKeyCalls /\ [][NextKeys]_vars

SpecInstances == InitInstances /\ [][NextInstances]_vars

\* The lock manager alone: two threads, two sessions
InitLocks ==
    /\ InitCB
    /\ InitRL /\ requests_per_hour = 0 /\ requests_per_day = 0
    /\ InitKM({NoEnvironment})
    /\ InitTC({MaxSize})
    /\ InitSG
    /\ InitWS

SpecLocks == InitLocks /\ [][NextLocks]_vars

\* One state dict and the transactions run on it, from every starting dict
InitTransactions ==
    /\ InitCB
    /\ InitRL /\ requests_per_hour = 0 /\ requests_per_day = 0
    /\ InitKM({NoEnvironment})
    /\ InitTC({MaxSize})
    /\ InitSG
    /\ InitWL /\ InitTX

SpecTransactions == InitTransactions /\ [][NextTransactions]_vars

Next ==
    \/ NextCB \/ NextRL \/ NextRLAcquire \/ NextKeys \/ NextKeyCalls
    \/ NextCache \/ NextInstances \/ CircuitGetStats
    \/ NextLocks \/ NextTransactions

Spec == InitAll /\ [][Next]_vars

\* ------------------------------------------------- CircuitBreaker claims
WithinTimeout == last_failure_time # NoTime /\ now - last_failure_time < timeout_seconds

\* C1: the counted failure that completes a run of failure_threshold
\* consecutive counted failures leaves the breaker OPEN, and a call() made
\* while the breaker is OPEN and now - lastFailureTime < timeout_seconds is
\* rejected with CircuitBreakerError (the open-circuit one) without ever
\* being admitted to fn.
C1_TripThenReject ==
    [][ /\ \A t \in Threads :
              CallCounted(t) /\ streak' >= failure_threshold => state' = "open"
        /\ \A t \in Threads :
              CallEnter(t) /\ state = "open" /\ WithinTimeout
                  => /\ result'[t] = "rejected_open"
                     /\ pc'[t] = "idle"
                     /\ state' = "open" ]_vars

\* C1 witness: exactly failure_threshold calls were made, all counted
\* failures, and the next call was rejected inside the timeout.
C1_Witness ==
    /\ state = "open"
    /\ WithinTimeout
    /\ streak = failure_threshold
    /\ total_calls = failure_threshold + 1
    /\ \E t \in Threads : result[t] = "rejected_open"

\* C2 (as claimed): no invocation of fn starts while the breaker is OPEN and
\* now - lastFailureTime < timeout_seconds, even for a caller admitted before
\* the breaker opened.
C2_NoInvokeWhileOpen ==
    [][ \A t \in Threads : Invoke(t) => ~(state = "open" /\ WithinTimeout) ]_vars

\* C2 (amended): no call() passes the admission check while the breaker is
\* OPEN and now - lastFailureTime < timeout_seconds; only a caller admitted
\* before the breaker opened can still start fn in that period.
C2_NoAdmissionWhileOpen ==
    [][ \A t \in Threads :
            (pc[t] = "idle" /\ pc'[t] = "admitted")
                => ~(state = "open" /\ WithinTimeout) ]_vars

\* C2 witness: one caller is running fn, admitted earlier, while the breaker
\* is OPEN inside its timeout and another caller has just been turned away.
C2_Witness ==
    /\ state = "open"
    /\ WithinTimeout
    /\ \E t, u \in Threads :
          /\ t # u
          /\ pc[t] = "running"
          /\ result[u] = "rejected_open"

\* C3: once the timeout has elapsed the next call() moves an OPEN breaker to
\* HALF_OPEN; the first success of a half-open episode leaves successCount
\* at exactly 1 (and, with half_open_max_calls > 1, the breaker HALF_OPEN);
\* a success closes the breaker only when half_open_max_calls calls admitted
\* in that episode have succeeded, and then failureCount = 0.
C3_HalfOpenRecovery ==
    [][ \A t \in Threads :
          /\ CallEnterSnap(t) /\ state = "open" /\ ~WithinTimeout
                => state' = "half_open"
          /\ CallSuccess(t) /\ state = "half_open" /\ probe[t] /\ episode_successes = 0
                => /\ success_count' = 1 \/ half_open_max_calls = 1
                   /\ state' = "half_open" \/ half_open_max_calls = 1
          /\ CallSuccess(t) /\ state = "half_open" /\ state' = "closed"
                => /\ episode_successes + (IF probe[t] THEN 1 ELSE 0) >= half_open_max_calls
                   /\ failure_count' = 0 ]_vars

\* C4: a counted failure of a call while the breaker is HALF_OPEN moves it
\* to OPEN with lastFailureTime = now and successCount = 0.
C4_HalfOpenFailureReopens ==
    [][ \A t \in Threads :
            CallCounted(t) /\ state = "half_open"
                => /\ state' = "open"
                   /\ last_failure_time' = now
                   /\ success_count' = 0 ]_vars

\* C5: within one half-open episode at most half_open_max_calls calls are
\* admitted, and a call() arriving once the cap is reached is rejected
\* without being admitted to fn.
C5_HalfOpenCap ==
    [][ /\ episode_admitted' <= half_open_max_calls
        /\ \A t \in Threads :
              CallEnter(t) /\ state' = "half_open"
                           /\ state = "half_open" /\ episode_admitted >= half_open_max_calls
                  => /\ result'[t] = "rejected_probing"
                     /\ pc'[t] = "idle" ]_vars

\* C5 witness: the cap is used up in the current episode and a further call
\* was turned away while the probes are still out.
C5_Witness ==
    /\ state = "half_open"
    /\ episode_admitted = half_open_max_calls
    /\ \E t \in Threads : pc[t] = "idle" /\ result[t] = "rejected_probing"
    /\ \E u \in Threads : pc[u] # "idle" /\ probe[u]

\* C6: when fn raised an exception outside expected_exception, the breaker's
\* state, failureCount, successCount, lastFailureTime and halfOpenCalls are
\* what they were when the call was made (made while CLOSED or HALF_OPEN).
C6_UncountedLeavesBreakerAlone ==
    \A t \in Threads :
        /\ pc[t] = "idle"
        /\ result[t] = "uncounted"
        /\ pre # NoSnapshot
        /\ pre[1] \in {"closed", "half_open"}
        => cbFields = pre

\* C19: while the breaker is CLOSED a counted failure adds exactly one to
\* failureCount and a success puts it back to 0, so the breaker leaves
\* CLOSED for OPEN only on the failure_threshold-th counted failure in a
\* row, with no success (and no reset) in between.
C19_ClosedFailureCount ==
    [][ /\ \A t \in Threads :
              /\ CallCounted(t) /\ state = "closed" =>
                    failure_count' = failure_count + 1
              /\ CallSuccess(t) /\ state = "closed" =>
                    failure_count' = 0 /\ state' = "closed"
        /\ state = "closed" /\ state' = "open" =>
              /\ \E t \in Threads : CallCounted(t)
              /\ streak' = failure_threshold
              /\ failure_count' = failure_threshold
        /\ state = "closed" => failure_count = streak ]_vars

\* C19 witness: after a success, the failure_threshold-th counted failure
\* in a row has opened the breaker; no call was rejected before.
C19_Witness ==
    /\ state = "open"
    /\ total_calls = 2 * failure_threshold
    /\ success_count = 1
    /\ failure_count = failure_threshold
    /\ streak = failure_threshold
    /\ \E t \in Threads :
          /\ result[t] = "counted"
          /\ \A u \in Threads \ {t} : result[u] = "none"
    /\ \A t \in Threads : pc[t] = "idle"

\* C20: call() swallows nothing. When fn raised, counted or not, the caller
\* gets that exception, a counted one after the failure was booked; when fn
\* returned, the caller gets its result; and the caller gets the breaker's
\* own CircuitBreakerError only from a call that was rejected without fn
\* being invoked.
C20_NothingSwallowed ==
    [][ \A t \in Threads :
          /\ CallSuccess(t) => result'[t] = "ok"
          /\ CallCounted(t) =>
                /\ result'[t] = "counted"
                /\ failure_count' = failure_count + 1
                /\ last_failure_time' = now
          /\ CallUncounted(t) => result'[t] = "uncounted"
          /\ pc[t] = "running" /\ pc'[t] = "idle" =>
                result'[t] \in {"ok", "counted", "uncounted"}
          /\ result'[t] # result[t] /\ result'[t] \in {"rejected_open", "rejected_probing"} =>
                /\ CallEnter(t)
                /\ pc'[t] = "idle"
                /\ state' \in {"open", "half_open"} ]_vars

\* C20 witness: one caller got the counted exception that opened the breaker,
\* the other got an exception that is not counted.
C20_Witness ==
    /\ state = "open"
    /\ streak = failure_threshold
    /\ \E t, u \in Threads :
          /\ result[t] = "counted" /\ pc[t] = "idle"
          /\ result[u] = "uncounted" /\ pc[u] = "idle"

\* C21: reset() forces the breaker, from any state, to CLOSED with
\* failureCount, successCount and halfOpenCalls at 0; the lifetime total of
\* calls and the time of the last failure are kept.
C21_ResetClosesAndZeroes ==
    [][ Reset =>
          /\ state' = "closed"
          /\ failure_count' = 0
          /\ success_count' = 0
          /\ half_open_calls' = 0
          /\ total_calls' = total_calls
          /\ last_failure_time' = last_failure_time ]_vars

\* C21 witness: failure_threshold counted failures opened the breaker, the
\* next call was rejected, and no call was made since: only reset() can
\* have closed the breaker, and it did so from OPEN or HALF_OPEN with
\* failureCount at failure_threshold.
C21_Witness ==
    /\ state = "closed"
    /\ failure_count = 0
    /\ success_count = 0
    /\ half_open_calls = 0
    /\ total_calls = failure_threshold + 1
    /\ last_failure_time # NoTime
    /\ \E t, u \in Threads :
          /\ result[t] = "counted"
          /\ result[u] = "rejected_open"
    /\ \A t \in Threads : pc[t] = "idle"

\* C28: only the outcome of a call admitted during the current half-open
\* episode moves the breaker out of HALF_OPEN; a call admitted earlier
\* (while CLOSED, or in a previous half-open episode) whose fn completes
\* while the breaker is HALF_OPEN neither closes nor re-opens it.
C28_OnlyProbesResolve ==
    [][ \A t \in Threads :
          /\ pc[t] = "running" /\ pc'[t] = "idle"
          /\ state = "half_open" /\ state' # "half_open"
          => probe[t] ]_vars

\* C29: HALF_OPEN is never permanent: once every call admitted in a
\* half-open episode has completed (returned, raised a counted failure or
\* raised an uncounted exception), the breaker has resolved to CLOSED or
\* OPEN or can still admit a call.
C29_HalfOpenResolves ==
    (state = "half_open" /\ \A t \in Threads : pc[t] = "idle")
        => ~half_open_limit_reached(half_open_calls)

\* C37: whenever the breaker is CLOSED, failureCount is below
\* failure_threshold, for every interleaving of calls, completions of calls
\* (stale ones included), state queries and reset().
C37_ClosedBelowThreshold ==
    state = "closed" => failure_count < failure_threshold

\* A closed breaker one counted failure short of opening, with a rejection
\* still on record: it had been OPEN, was closed again, and a call failed
\* after that
C37_Witness ==
    /\ state = "closed"
    /\ failure_count = failure_threshold - 1
    /\ failure_count > 0
    /\ \E t, u \in Threads :
          /\ result[t] = "counted"
          /\ result[u] = "rejected_open"
    /\ \A t \in Threads : pc[t] = "idle"

\* C32: the OPEN -> HALF_OPEN transition happens only in a read of the
\* `state` property or in the admission of a call(), made when
\* now - _last_failure_time >= timeout_seconds; it leaves _half_open_calls
\* at 0 (plus the call admitted in that same locked block); get_stats()
\* changes no field of the breaker.
C32_LazyHalfOpen ==
    /\ [][state = "open" /\ state' = "half_open" =>
             /\ last_failure_time # NoTime
             /\ now - last_failure_time >= timeout_seconds
             /\ StateQuery \/ \E t \in Threads : CallEnter(t)
             /\ half_open_calls' =
                    Cardinality({t \in Threads : pc[t] = "idle" /\ pc'[t] = "admitted"}) ]_vars
    /\ [][cb_stats' # cb_stats => UNCHANGED cbVars]_vars

\* A state query made the breaker HALF_OPEN after get_stats() had reported
\* it OPEN with no time left to wait; the probe of the episode before had
\* been counted
C32_Witness ==
    /\ state = "half_open"
    /\ half_open_calls = 0
    /\ cb_stats = <<"open", 0>>
    /\ now - last_failure_time >= timeout_seconds
    /\ total_calls > failure_threshold + 1

\* C33: OPEN is never permanent. An OPEN breaker whose last counted
\* failure was at time d becomes HALF_OPEN and admits a call, unless the
\* failure of a call still in flight moves the last failure time past d
\* first, reset() closes the breaker, or the model's bound on calls is
\* reached; such a postponement takes a call that was in flight when the
\* breaker opened, and while the breaker stays OPEN no further call gets
\* in flight.
C33_OpenNotPermanent ==
    /\ \A d \in 0..(MaxTime - timeout_seconds) :
          (state = "open" /\ last_failure_time = d /\ total_calls < MaxCalls)
             ~> \/ state = "half_open" /\ episode_admitted > 0
                \/ last_failure_time > d
                \/ state = "closed"
                \/ total_calls = MaxCalls
    /\ [][state = "open" /\ last_failure_time' # last_failure_time =>
             \E t \in Threads : pc[t] = "running" /\ CallCounted(t)]_vars
    /\ [][state = "open" /\ state' = "open" =>
             \A t \in Threads : pc[t] = "idle" => pc'[t] = "idle"]_vars

\* The first failure_threshold + 1 calls all failed, the last of them after
\* the breaker had opened; the call after them is the probe of a HALF_OPEN
\* breaker
C33_Witness ==
    /\ state = "half_open"
    /\ episode_admitted = 1
    /\ \E t \in Threads : probe[t] /\ pc[t] = "admitted"
    /\ failure_count = failure_threshold + 1
    /\ total_calls = failure_threshold + 2

\* ---------------------------------------------------- RateLimiter claims
\* Timestamps of a window that still count at the current clock reading,
\* counted directly (not by the limiter's own cleaning)
InWindow(window, span) ==
    Cardinality({i \in 1..Len(window) : clock - window[i] <= span})

MinuteFree == requests_per_minute - InWindow(minute_window, MinuteSeconds)
HourFree == requests_per_hour - InWindow(hour_window, HourSeconds)
DayFree == requests_per_day - InWindow(day_window, DaySeconds)

Smaller(a, b) == IF a < b THEN a ELSE b

\* Slots left at the current clock reading over all configured tiers
FreeSlots ==
    Smaller(MinuteFree,
            Smaller(IF requests_per_hour # 0 THEN HourFree ELSE MinuteFree,
                    IF requests_per_day # 0 THEN DayFree ELSE MinuteFree))

Polled(t) == TryAcquire(t) \/ AcquirePoll(t)

\* C7: at all times every configured window holds at most its limit of
\* timestamps that still count; and when exactly one slot is free the caller
\* that gets the lock is admitted and takes it, so that a second caller at
\* the same instant is refused.
C7_WindowsWithinLimits ==
    /\ [](/\ MinuteFree >= 0
          /\ requests_per_hour # 0 => HourFree >= 0
          /\ requests_per_day # 0 => DayFree >= 0)
    /\ [][ \A t \in Threads :
             /\ Polled(t) /\ FreeSlots = 1
                   => tried_at'[t] = clock /\ total_requests' = total_requests + 1
                      /\ FreeSlots' = 0
             /\ Polled(t) /\ FreeSlots <= 0
                   => total_requests' = total_requests ]_vars

\* C7 witness: the last slot went to one caller and the other, calling at
\* the same instant, was refused.
C7_Witness ==
    /\ FreeSlots = 0
    /\ \E t, u \in Threads :
          /\ t # u
          /\ rl_result[t] = "true" /\ tried_at[t] = clock
          /\ rl_result[u] = "false" /\ tried_at[u] = clock
    /\ total_requests = requests_per_minute
    /\ total_blocked = 1

\* C8: try_acquire() returns True exactly when every configured window holds
\* fewer timestamps that still count than its limit, and then the clock
\* reading is appended to every configured window (and to no other); when
\* it returns False no window gains a timestamp.
C8_AdmitIffAllTiersPermit ==
    [][ \A t \in Threads :
          TryAcquire(t) =>
            LET permit == /\ InWindow(minute_window, MinuteSeconds) < requests_per_minute
                          /\ requests_per_hour # 0 =>
                                InWindow(hour_window, HourSeconds) < requests_per_hour
                          /\ requests_per_day # 0 =>
                                InWindow(day_window, DaySeconds) < requests_per_day
                grow(flag) == IF flag THEN 1 ELSE 0
            IN  /\ rl_result'[t] = (IF permit THEN "true" ELSE "false")
                /\ Len(minute_window') = InWindow(minute_window, MinuteSeconds) + grow(permit)
                /\ Len(hour_window') = InWindow(hour_window, HourSeconds)
                                         + grow(permit /\ requests_per_hour # 0)
                /\ Len(day_window') = InWindow(day_window, DaySeconds)
                                         + grow(permit /\ requests_per_day # 0)
                /\ permit => minute_window'[Len(minute_window')] = clock
                /\ permit /\ requests_per_hour # 0 => hour_window'[Len(hour_window')] = clock
                /\ permit /\ requests_per_day # 0 => day_window'[Len(day_window')] = clock ]_vars

\* C8 witness: the minute window has room but the day tier, the only other
\* one configured, is full, so the request was refused.
C8_Witness ==
    /\ requests_per_hour = 0 /\ requests_per_day # 0
    /\ MinuteFree > 0 /\ DayFree = 0
    /\ \E t \in Threads : rl_result[t] = "false" /\ tried_at[t] = clock

\* C9: with the minute window full, a try_acquire() is refused as long as
\* the oldest timestamp is at most MinuteSeconds old (the edge included) and,
\* the other tiers permitting, admitted as soon as it is older than that.
C9_WindowExact ==
    [][ \A t \in Threads :
          TryAcquire(t) /\ Len(minute_window) = requests_per_minute =>
            /\ clock - Head(minute_window) <= MinuteSeconds => rl_result'[t] = "false"
            /\ (/\ clock - Head(minute_window) > MinuteSeconds
                /\ requests_per_hour # 0 => HourFree > 0
                /\ requests_per_day # 0 => DayFree > 0)
                  => rl_result'[t] = "true" ]_vars

\* C9 witness: requests_per_minute admissions at t = 0, a refusal at
\* t = 60 and an admission at t = 61.
C9_Witness ==
    /\ clock = MinuteSeconds + 1
    /\ total_requests = requests_per_minute + 1
    /\ minute_window = <<clock>>
    /\ \E t, u \in Threads :
          /\ rl_result[t] = "false" /\ tried_at[t] = MinuteSeconds
          /\ rl_result[u] = "true" /\ tried_at[u] = MinuteSeconds + 1

StatsWait ==
    time_until_available(clean(minute_window, clock, MinuteSeconds), clock)

\* Time until the oldest timestamp that still counts leaves the window
UntilFree(window, span) ==
    span - (clock - Head(clean(window, clock, span)))

\* Those times, for the configured windows that are at capacity
BindingWaits ==
    (IF MinuteFree <= 0 THEN {UntilFree(minute_window, MinuteSeconds)} ELSE {})
    \cup (IF requests_per_hour # 0 /\ HourFree <= 0
          THEN {UntilFree(hour_window, HourSeconds)} ELSE {})
    \cup (IF requests_per_day # 0 /\ DayFree <= 0
          THEN {UntilFree(day_window, DaySeconds)} ELSE {})

\* C11: the time until available is 0 exactly when no configured window is
\* at capacity (a try_acquire() at the same instant would be admitted), and
\* when a window is at capacity it is that window's length minus the age of
\* its oldest timestamp.
C11_TimeUntilAvailable ==
    /\ StatsWait = 0 <=> FreeSlots > 0
    /\ FreeSlots <= 0 => StatsWait \in BindingWaits

\* C35: a caller waiting in acquire() (between a rejected poll and the
\* next one) does not own the limiter's lock; the other caller's
\* try_acquire(), get_stats() and reset() can run at that moment; and no
\* caller is ever stuck: whatever position a caller has in acquire() or
\* before try_acquire(), its next step can be taken.
Waiting(t) == rl_pc[t] \in {"check", "log", "sleep"}

C35_NoLockWhileWaiting ==
    /\ \A t \in Threads : Waiting(t) =>
          /\ rl_lock # t
          /\ \A u \in Threads \ {t} : rl_pc[u] = "idle" => ENABLED TryAcquire(u)
          /\ ENABLED GetStats
          /\ ENABLED ResetLimiter
    /\ \A t \in Threads :
          /\ rl_pc[t] = "idle" => ENABLED TryAcquire(t)
          /\ rl_pc[t] = "poll" => ENABLED AcquirePoll(t)
          /\ rl_pc[t] = "check" => ENABLED AcquireCheck(t)
          /\ rl_pc[t] = "log" => ENABLED AcquireLogWait(t)
          /\ rl_pc[t] = "sleep" => ENABLED AcquireSleep(t)

\* While the waiter sleeps after a rejected poll, the clock has moved on
\* and the other caller's try_acquire() has run and returned
C35_Witness ==
    /\ rl_pc[Waiter] = "sleep"
    /\ rl_result[Waiter] = "none"
    /\ \E u \in Threads \ {Waiter} :
          /\ rl_result[u] # "none"
          /\ tried_at[u] > tried_at[Waiter]
          /\ tried_at[Waiter] # NotTried

\* C36 (as claimed): a rejected try_acquire() changes nothing but the
\* windows, which it prunes: no window gains a timestamp and no counter of
\* the limiter changes.
Pruned ==
    /\ minute_window' = clean(minute_window, clock, MinuteSeconds)
    /\ hour_window' = clean(hour_window, clock, HourSeconds)
    /\ day_window' = clean(day_window, clock, DaySeconds)

Rejected(t) == rl_result'[t] = "false" /\ tried_at'[t] = clock /\ TryAcquire(t)

C36_RejectionChangesNoCounter ==
    [][\A t \in Threads : Rejected(t) =>
          /\ Pruned
          /\ total_requests' = total_requests
          /\ total_blocked' = total_blocked]_vars

\* C36 (amended): a rejected try_acquire() prunes the windows, adds no
\* timestamp to any of them, leaves total_requests alone and counts the
\* rejection in total_blocked (which the model follows up to MaxBlocked).
C36_RejectionOnlyCounted ==
    [][\A t \in Threads : Rejected(t) =>
          /\ Pruned
          /\ total_requests' = total_requests
          /\ total_blocked' =
                IF total_blocked < MaxBlocked THEN total_blocked + 1 ELSE total_blocked
          /\ UNCHANGED <<rlConfig, clock, rl_pc, rlLocals, rl_lock>>]_vars

\* A call was rejected at this clock reading and counted, after two
\* admissions of which the hour window has kept one: the older timestamp
\* was pruned
C36_Witness ==
    \E t \in Threads :
        /\ rl_result[t] = "false"
        /\ tried_at[t] = clock
        /\ total_blocked = 1
        /\ total_requests = 2
        /\ requests_per_hour # 0
        /\ Len(hour_window) = 1
        /\ Len(minute_window) = requests_per_minute

\* C38: acquire() without a timeout never returns False, and it returns
\* True in the end: the caller is left waiting only as long as some window
\* is still full, by the count of the timestamps that are at most the
\* window's length old (the clock of the model stops after MaxTicks jumps;
\* a slot that the other caller took is not free any more).
C38_AcquireForeverReturnsTrue ==
    /\ (rl_pc[Waiter] # "idle" /\ timeout[Waiter] = NoTimeout)
          ~> \/ rl_pc[Waiter] = "idle" /\ rl_result[Waiter] = "true"
             \/ ticks = MaxTicks /\ FreeSlots = 0
    /\ [][ /\ rl_pc[Waiter] # "idle"
           /\ timeout[Waiter] = NoTimeout
           /\ rl_pc'[Waiter] = "idle"
           => rl_result'[Waiter] = "true" /\ AcquirePoll(Waiter) ]_vars

\* acquire() without a timeout has returned True from a poll made after
\* the clock had moved on from its start, and the other caller was refused
\* at that clock reading since
C38_Witness ==
    /\ rl_pc[Waiter] = "idle"
    /\ rl_result[Waiter] = "true"
    /\ tried_at[Waiter] = clock
    /\ ticks > 0
    /\ wait_logged[Waiter] = FALSE
    /\ total_blocked > 0
    /\ minute_window = <<clock>>
    /\ \E u \in Threads \ {Waiter} : rl_result[u] = "false" /\ tried_at[u] = clock

\* --------------------------------------------------- APIKeyManager claims
\* C12: a key that was marked compromised is not in the active list any
\* more, so that no later get_current_google_key() returns it, whatever
\* rotate, handle_api_error, rotate_to_specific_key and reset_rotation calls
\* follow.
C12_RevokedNeverCurrent ==
    /\ Range(google_keys) \cap compromised_keys = {}
    /\ get_current_google_key \notin compromised_keys

\* C13: under every interleaving of rotate, remove, handle_api_error,
\* rotate_to_specific_key and reset_rotation calls, a non-empty pool has
\* 0 <= _current_index < len(_google_keys), and get_current_google_key()
\* returns a key of the active list.
C13_IndexInRange ==
    /\ [](google_keys # <<>> =>
             current_index >= 0 /\ current_index < Len(google_keys))
    /\ [][ GetCurrentGoogleKey /\ google_keys # <<>> =>
             /\ returned'[2] \in Range(google_keys)
             /\ returned'[2] = google_keys[current_index + 1] ]_vars

\* C13 witness: one caller of handle_api_error has removed a key and not
\* yet rotated, the other is about to remove a key, and a
\* get_current_google_key() in between returned the last key of the pool.
C13_Witness ==
    /\ \E t, u \in Threads : km_pc[t] = "rotate" /\ km_pc[u] = "remove"
    /\ compromised_keys # {}
    /\ Len(google_keys) > 1
    /\ current_index = Len(google_keys) - 1
    /\ returned = <<"get_current_google_key", google_keys[current_index + 1]>>

\* C14: get_current_google_key() on an empty pool fails with a
\* credential-exhausted error that reaches the caller; it returns no value.
C14_EmptyPoolRaises ==
    [][ GetCurrentGoogleKey /\ google_keys = <<>> =>
          returned' = <<"get_current_google_key", "CredentialExhaustedError">> ]_vars

\* C15: rotate_google_key() on a pool of n >= 2 keys sets _current_index to
\* (_current_index + 1) mod n and returns True, and the n-th rotation in a
\* row brings the index back to where the first one started; on a pool of
\* fewer than 2 keys it returns False and leaves the index alone.
C15_RotateCycles ==
    [][ RotateGoogleKey =>
          LET n == Len(google_keys)
          IN  /\ n >= 2 => /\ current_index' = (current_index + 1) % n
                           /\ returned' = <<"rotate_google_key", TRUE>>
              /\ n >= 2 /\ rotations = n - 1 => current_index' = rotation_start
              /\ n < 2 => /\ current_index' = current_index
                          /\ returned' = <<"rotate_google_key", FALSE>>
              /\ google_keys' = google_keys
              /\ compromised_keys' = compromised_keys ]_vars

\* C15 witness: on a pool of three keys, three rotations in a row that
\* started at index 1 have come back to index 1.
C15_Witness ==
    /\ Len(google_keys) = 3
    /\ returned = <<"rotate_google_key", TRUE>>
    /\ rotations = 0
    /\ rotation_start = 1
    /\ current_index = 1

\* Error classes, read off the message
LeakedError(error) == error \cap {"leaked", "compromised"} # {}
QuotaError(error) == error \cap {"429", "resource exhausted", "quota"} # {}

\* What a rotation does to the index, and what it returns
Rotated(index, n) == IF n >= 2 THEN (index + 1) % n ELSE index
RotationResult(n) == <<"handle_api_error", n >= 2>>

\* C16: handle_api_error acts on the class of the error. Leaked or
\* compromised: the current key (the one the caller names as current_key,
\* else the one get_current_google_key() gives) is revoked and then the pool
\* is rotated. Quota or rate limit (429, resource exhausted, quota): the
\* pool is rotated and nothing is revoked. Anything else: the key list, the
\* index and the revoked set stay as they are and False is returned.
C16_ClassifiedHandling ==
    [][ \A t \in Threads :
          /\ km_pc[t] = "idle"
             /\ (km_pc'[t] = "remove" \/ returned'[1] = "handle_api_error")
             /\ (\A u \in Threads \ {t} : km_pc'[u] = km_pc[u]) =>
              \A error \in Errors : \A current_key \in Keys \cup {NoKey} :
                HandleApiError(t, error, current_key) =>
                  LET used == IF current_key # NoKey
                              THEN current_key
                              ELSE get_current_google_key
                  IN  /\ LeakedError(error) /\ used # NoKey =>
                            /\ km_pc'[t] = "remove"
                            /\ key_to_remove'[t] = used
                            /\ kmFields' = kmFields
                      /\ LeakedError(error) /\ used = NoKey =>
                            /\ kmFields' = kmFields
                            /\ returned' = <<"handle_api_error", FALSE>>
                      /\ ~LeakedError(error) /\ QuotaError(error) =>
                            /\ google_keys' = google_keys
                            /\ compromised_keys' = compromised_keys
                            /\ current_index' = Rotated(current_index, Len(google_keys))
                            /\ returned' = RotationResult(Len(google_keys))
                      /\ ~LeakedError(error) /\ ~QuotaError(error) =>
                            /\ kmFields' = kmFields
                            /\ returned' = <<"handle_api_error", FALSE>>
          /\ HandleRemove(t) =>
                /\ key_to_remove[t] \in Range(google_keys) =>
                      /\ compromised_keys' = compromised_keys \cup {key_to_remove[t]}
                      /\ Len(google_keys') = Len(google_keys) - 1
                      /\ \E i \in 1..Len(google_keys) :
                            /\ google_keys[i] = key_to_remove[t]
                            /\ google_keys' = [j \in 1..(Len(google_keys) - 1) |->
                                                IF j < i THEN google_keys[j]
                                                         ELSE google_keys[j + 1]]
                /\ key_to_remove[t] \notin Range(google_keys) => kmFields' = kmFields
                /\ km_pc'[t] = "rotate"
          /\ HandleRotate(t) =>
                /\ google_keys' = google_keys
                /\ compromised_keys' = compromised_keys
                /\ current_index' = Rotated(current_index, Len(google_keys))
                /\ returned' = RotationResult(Len(google_keys))
                /\ km_pc'[t] = "idle" ]_vars

\* C16 witness: of three keys the first was reported leaked; it is revoked
\* and the caller is about to rotate, after an unclassified error had been
\* answered with False.
C16_Witness ==
    /\ \E t \in Threads :
          /\ km_pc[t] = "rotate"
          /\ \A u \in Threads \ {t} : km_pc[u] = "idle"
    /\ compromised_keys = {"A"}
    /\ google_keys = <<"B", "C">>
    /\ current_index = 0
    /\ returned = <<"handle_api_error", FALSE>>

\* C17: marking a key of the pool compromised takes it out of the active
\* list, puts it into the revoked set and returns True; marking a revoked
\* key again returns False and changes nothing; the revoked set only grows
\* and no key comes back into the active list.
C17_MarkCompromisedOnce ==
    [][ /\ \A key \in Keys :
              RemoveCompromisedKey(key) =>
                /\ key \in Range(google_keys) =>
                      /\ key \notin Range(google_keys')
                      /\ key \in compromised_keys'
                      /\ returned' = <<"_remove_compromised_key", TRUE>>
                /\ key \in compromised_keys =>
                      /\ returned' = <<"_remove_compromised_key", FALSE>>
                      /\ kmFields' = kmFields
        /\ compromised_keys \subseteq compromised_keys'
        /\ Range(google_keys') \subseteq Range(google_keys) ]_vars

\* C18: the key list built at startup holds every key once, also when the
\* same key is given under two entries of the environment, so that removing
\* a key leaves no occurrence of it behind.
C18_NoDuplicateKeys ==
    /\ \A i, j \in 1..Len(google_keys) : i # j => google_keys[i] # google_keys[j]
    /\ returned = <<"_remove_compromised_key", TRUE>> =>
          Range(google_keys) \cap compromised_keys = {}

\* C30: handle_api_error for a leaked-key error, called without
\* current_key, revokes only the credential the failing call was made with,
\* also when another thread has meanwhile rotated away from that credential
\* or already revoked it; a credential that was never reported leaked is
\* not revoked.
C30_RevokesOnlyTheFailedKey ==
    [][ \A t \in Threads :
          /\ km_pc[t] = "idle" /\ km_pc'[t] = "remove" =>
                key_to_remove'[t] = used_key[t]
          /\ km_pc[t] = "remove" /\ km_pc'[t] = "rotate" =>
                compromised_keys' \ compromised_keys \subseteq {used_key[t]} ]_vars

\* C31: handle_api_error returns True if and only if the key that
\* get_current_google_key() returns after the call is a usable key that
\* differs from the one it returned before the call; it returns False
\* exactly when the current key is unchanged or no key remains.
\* (A call that neither removes nor rotates returns in one step; a call for
\* a leaked key returns in its HandleRotate step.)
SignalsNewKey(before) ==
    returned'[2] = TRUE <=>
        (get_current_google_key' # NoKey /\ get_current_google_key' # before)

C31_TrueIffNewUsableKey ==
    [][\A t \in Threads :
          /\ km_pc[t] = "idle" /\ km_pc'[t] = "idle"
                /\ returned'[1] = "handle_api_error"
                /\ (\E error \in Errors : \E current_key \in Keys \cup {NoKey} :
                       HandleApiError(t, error, current_key))
             => SignalsNewKey(get_current_google_key)
          /\ HandleRotate(t) => SignalsNewKey(key_before[t]) ]_vars

\* C34: removing a compromised key other than the current one does not
\* change the key that get_current_google_key() returns, wherever the
\* removed key stands in the pool.
C34_RemovalKeepsCurrentKey ==
    [][\A key \in Keys :
          /\ key # get_current_google_key
          /\ returned' = <<"_remove_compromised_key", TRUE>>
          /\ RemoveCompromisedKey(key)
          => get_current_google_key' = get_current_google_key]_vars

\* -------------------------------------------------------- TTLCache claims
\* C22: after any sequence of set, get, invalidate, invalidate_pattern,
\* cleanup_expired and clear, the number of entries stored in a TTLCache is
\* at most max_size.
C22_SizeWithinMax == Len(cache) <= max_size

\* C22 witness: a set has just stored its key in a cache that now holds
\* max_size entries, one of them already expired.
C22_Witness ==
    /\ max_size = MaxSize
    /\ Len(cache) = max_size
    /\ tc_returned[1] = "set"
    /\ cache[Len(cache)].key = tc_returned[2]
    /\ \E i \in 1..Len(cache) : is_expired(cache[i], tc_now)

\* C23: get(key) returns the stored value if and only if the key is stored
\* and now <= expires_at, and absent otherwise; a get(k) that follows
\* set(k, v, ttl) at once returns v; a get(k) made once now > expires_at
\* returns absent and removes the entry, which no longer counts toward the
\* size of the cache.
C23_GetReturnsLiveValue ==
    [][ \A key \in CacheKeys :
          tc_returned'[1] = "get" /\ tc_returned'[2] = key /\ Get(key) =>
            LET live == /\ key \in stored_keys(cache)
                        /\ tc_now <= entry_of(cache, key).expires_at
            IN  /\ live => tc_returned'[3] = entry_of(cache, key).value
                /\ ~live => tc_returned'[3] = Absent
                /\ tc_returned[1] = "set" /\ tc_returned[2] = key
                      /\ tc_returned[3] \in Values
                      => tc_returned'[3] = tc_returned[3]
                /\ key \in stored_keys(cache) /\ ~live =>
                      /\ key \notin stored_keys(cache')
                      /\ Len(cache') = Len(cache) - 1 ]_vars

\* C23 witness: a get has returned the value of an entry at the very instant
\* its lifetime ends (now = expires_at), some time after it was set.
C23_Witness ==
    /\ tc_returned[1] = "get"
    /\ tc_returned[3] \in Values
    /\ cache # <<>>
    /\ cache[Len(cache)].key = tc_returned[2]
    /\ cache[Len(cache)].value = tc_returned[3]
    /\ cache[Len(cache)].expires_at = tc_now
    /\ tc_now > 0

\* Keys of the cache from the least to the most recently used, and the same
\* without some keys
KeyOrder(c) == [i \in 1..Len(c) |-> c[i].key]
Without(order, keys) == SelectSeq(order, LAMBDA k : k \notin keys)
\* Entries whose lifetime has not run out, least recently used first
LiveEntries == SelectSeq(cache, LAMBDA e : ~is_expired(e, tc_now))
\* set(key, ...) is about to store a new key in a cache that holds max_size
\* entries (at least one)
FullForNewKey(key) ==
    key \notin stored_keys(cache) /\ Len(cache) = max_size /\ max_size > 0

C27_NoOperationRaises ==
    /\ tc_returned[1] = "get" => tc_returned[3] \in Values \cup {Absent}
    /\ tc_returned[1] = "invalidate" => tc_returned[3] \in BOOLEAN
    /\ tc_returned[1] \in {"invalidate_pattern", "cleanup_expired"} =>
          tc_returned[3] \in 0..Len(cache) + Cardinality(CacheKeys)
    /\ tc_returned[1] = "set" =>
          /\ tc_returned[3] \in Values
          /\ tc_returned[2] \in stored_keys(cache)

C26_OneInstancePerAccessor ==
    \A a \in Accessors : Cardinality(handed_out[a]) <= 1

\* ------------------------------------------------ workflow_sync claims
\* The threads inside a `with workflow_lock(session)` block of the session
InsideBlock(session) ==
    {t \in Threads : wl_pc[t] = "inside" /\ wl_session[t] = session}

\* C39: for a given session_id at most one thread at a time is inside a
\* `with workflow_lock(session_id)` block, whatever the interleaving of
\* entries, exits, release_lock() calls and the periodic cleanup; and a
\* waiter that got TimeoutError is not inside the block.
C39_OneThreadPerSession ==
    /\ \A session \in Sessions : Cardinality(InsideBlock(session)) <= 1
    /\ \A t \in Threads : wl_result[t] = "TimeoutError" => wl_pc[t] # "inside"

\* C40: a `with state_transaction(state, auto_commit=True)` block ends in
\* one of two outcomes: after a body that completed normally the transaction
\* is committed (txn.committed is True); after a body that raised, the state
\* dict equals the snapshot taken at entry, txn.rolled_back is True and the
\* exception has propagated.
C40_CommitOrRollback ==
    tx_pc = "done" /\ auto_commit =>
        \/ tx_outcome = "normal" /\ committed
        \/ /\ tx_outcome \in Exceptions
           /\ working_state = original_state
           /\ rolled_back

====
